---- MODULE Spec2Model ----
(***************************************************************************)
(* The per-executor scheduling round of armada:                            *)
(* internal/scheduler/context/context.go.  A SchedulingContext (the Round) *)
(* owns one QueueSchedulingContext (QueueRound) per registered queue; job  *)
(* and gang decisions are applied to, and jobs evicted from, both levels.  *)
(* And the SubmitFromLog service (package server), which reads event       *)
(* sequences from the log and applies them one run of events at a time.    *)
(***************************************************************************)
EXTENDS Integers, Sequences, FiniteSets, TLC

(***************************************************************************)
(* Bounds of the model.                                                    *)
(***************************************************************************)
\* Number of calls made on one Round.
MaxOps == 3
\* Largest number of members of a gang handed to a gang apply or gang evict.
MaxGang == 2
\* Largest number of events in one event sequence.
MaxEvents == 3
\* The no-progress timeout of ProcessSequence, counted in the one-second
\* sleeps of its loop.
Timeout == 2

(***************************************************************************)
(* Values.                                                                 *)
(***************************************************************************)
ResourceNames == {"cpu", "memory"}
PriorityClassNames == {"p1", "p2"}
\* A Go pointer or map that may be nil: no referent, or exactly one.
Nil == {}
Ptr(x) == {x}
Deref(p) == CHOOSE x \in p : TRUE

\* schedulerobjects.ResourceList: resource name -> quantity (signed).
ZeroResourceList == [r \in ResourceNames |-> 0]
RL(c, m) == [r \in ResourceNames |-> IF r = "cpu" THEN c ELSE m]

\* ResourceList.Add / AddV1ResourceList and Sub / SubV1ResourceList.
RLAdd(a, b) == [r \in ResourceNames |-> a[r] + b[r]]
RLSub(a, b) == [r \in ResourceNames |-> a[r] - b[r]]

\* schedulerobjects.QuantityByTAndResourceType[string]:
\* priority class name -> ResourceList; an absent class reads as zero.
EmptyQuantityByPC == [p \in PriorityClassNames |-> ZeroResourceList]
QAddV1ResourceList(t, pc, rl) == [t EXCEPT ![pc] = RLAdd(t[pc], rl)]
QSubV1ResourceList(t, pc, rl) == [t EXCEPT ![pc] = RLSub(t[pc], rl)]
\* The sum of the ResourceLists f[x], x in S.
RECURSIVE SumResourceLists(_, _)
SumResourceLists(f, S) ==
    IF S = {} THEN ZeroResourceList
    ELSE LET x == CHOOSE y \in S : TRUE
         IN  RLAdd(f[x], SumResourceLists(f, S \ {x}))
\* QuantityByTAndResourceType.AggregateByResource
AggregateByResource(t) == SumResourceLists(t, DOMAIN t)
\* QuantityByTAndResourceType.IsZero
QIsZero(t) == \A p \in PriorityClassNames : t[p] = ZeroResourceList

\* Maps with a growing and shrinking key set.
EmptyMap == [k \in {} |-> {}]
MapPut(m, k, v) == [x \in (DOMAIN m) \cup {k} |-> IF x = k THEN v ELSE m[x]]
MapDelete(m, k) == [x \in (DOMAIN m) \ {k} |-> m[x]]

(***************************************************************************)
(* Inputs: job handles, JobSchedulingContexts, gangs, queue registrations. *)
(***************************************************************************)
\* interfaces.LegacySchedulerJob, as the capability set the Round reads.
Job(id, queue, pc, requests) ==
    [Id |-> id, Queue |-> queue, PriorityClassName |-> pc, Requests |-> requests]

Jobs ==
    { Job("j1", "A", "p1", RL(1, 10)),
      Job("j2", "A", "p2", RL(2, 20)),
      Job("j3", "B", "p1", RL(1, 10)) }

JobIds == {j.Id : j \in Jobs}

\* The priority-class catalogue of the Round; a class not in it has priority 0.
PriorityClasses == [p \in {"p1"} |-> 1]

UnschedulableReasons == {"", "does not fit"}

\* JobSchedulingContextsFromJobs, with the verdict and the pod requirements
\* (nil or the job's own) the scheduler attached.
JobSchedulingContext(job, hasPodRequirements, reason) ==
    [ JobId |-> job.Id,
      Job |-> Ptr(job),
      PodRequirements |-> IF hasPodRequirements
                            THEN Ptr([Requests |-> job.Requests])
                            ELSE Nil,
      UnschedulableReason |-> reason ]

Jctxs ==
    { JobSchedulingContext(j, pod, reason) :
        j \in Jobs, pod \in BOOLEAN, reason \in UnschedulableReasons }

IsSuccessful(jctx) == jctx.UnschedulableReason = ""

\* Sequences of length at most n over S.
RECURSIVE SeqsUpTo(_, _)
SeqsUpTo(S, n) ==
    IF n = 0 THEN {<< >>}
    ELSE LET shorter == SeqsUpTo(S, n - 1)
         IN  shorter \cup
             {Append(s, x) : s \in {t \in shorter : Len(t) = n - 1}, x \in S}

\* Gangs, as NewGangSchedulingContext builds them: it reads the pod
\* requirements of every member, and all members are in the same queue
\* (enforced at job submission).
SameQueue(queues) == \A i, k \in DOMAIN queues : queues[i] = queues[k]
Gangs ==
    {g \in SeqsUpTo({c \in Jctxs : c.PodRequirements # Nil}, MaxGang) :
        SameQueue([i \in DOMAIN g |-> Deref(g[i].Job).Queue])}
JobLists ==
    {js \in SeqsUpTo(Jobs, MaxGang) :
        SameQueue([i \in DOMAIN js |-> js[i].Queue])}

\* Queue registrations: name, weight and initialAllocatedByPriorityClass
\* (nil or a table).
QueueRegistrations ==
    { <<"A", 1, Nil>>,
      <<"A", 2, Ptr([EmptyQuantityByPC EXCEPT !["p2"] = RL(5, 50)])>>,
      <<"B", 2, Ptr([EmptyQuantityByPC EXCEPT !["p1"] = RL(5, 50)])>> }

(***************************************************************************)
(* QueueSchedulingContext.                                                 *)
(***************************************************************************)
\* The outcome of a call: the object after it, the returned bool, the error.
NoError == "none"
Result(obj, ret, err) == [obj |-> obj, ret |-> ret, err |-> err]

\* The QueueSchedulingContext that AddQueueSchedulingContext builds.
\* A mutant of NewQueueSchedulingContext: the total allocation starts at
\* zero whatever the initial allocation by priority class.
NewQueueSchedulingContext_ZeroAllocated(queue, weight, initialAllocatedByPriorityClass) ==
    LET initial == IF initialAllocatedByPriorityClass = Nil
                     THEN EmptyQuantityByPC
                     ELSE Deref(initialAllocatedByPriorityClass)
    IN  [ Queue |-> queue,
          Weight |-> weight,
          Allocated |-> ZeroResourceList,
          AllocatedByPriorityClass |-> initial,
          ScheduledResourcesByPriorityClass |-> EmptyQuantityByPC,
          EvictedResourcesByPriorityClass |-> EmptyQuantityByPC,
          SuccessfulJobSchedulingContexts |-> EmptyMap,
          UnsuccessfulJobSchedulingContexts |-> EmptyMap,
          EvictedJobsById |-> {} ]

NewQueueSchedulingContext(queue, weight, initialAllocatedByPriorityClass) ==
    LET initial == IF initialAllocatedByPriorityClass = Nil
                     THEN EmptyQuantityByPC
                     ELSE Deref(initialAllocatedByPriorityClass)
    IN  [ Queue |-> queue,
          Weight |-> weight,
          Allocated |-> AggregateByResource(initial),
          AllocatedByPriorityClass |-> initial,
          ScheduledResourcesByPriorityClass |-> EmptyQuantityByPC,
          EvictedResourcesByPriorityClass |-> EmptyQuantityByPC,
          SuccessfulJobSchedulingContexts |-> EmptyMap,
          UnsuccessfulJobSchedulingContexts |-> EmptyMap,
          EvictedJobsById |-> {} ]

\* Allocated and AllocatedByPriorityClass grow together.
Qctx_Allocate(qctx, pc, requests) ==
    [qctx EXCEPT
        !.Allocated = RLAdd(@, requests),
        !.AllocatedByPriorityClass = QAddV1ResourceList(@, pc, requests)]

\* A mutant of Qctx_AddSuccessful: a re-scheduled evictee is recorded like a
\* newly scheduled job.
Qctx_AddSuccessful_EvicteeAsNew(qctx, jctx, evictedInThisRound) ==
    LET requests == Deref(jctx.PodRequirements).Requests
        pc == Deref(jctx.Job).PriorityClassName
        allocated == Qctx_Allocate(qctx, pc, requests)
    IN  [allocated EXCEPT
            !.EvictedJobsById = @ \ {jctx.JobId},
            !.SuccessfulJobSchedulingContexts = MapPut(@, jctx.JobId, jctx),
            !.ScheduledResourcesByPriorityClass =
                QAddV1ResourceList(@, pc, requests)]

\* The successful branch of QueueSchedulingContext.AddJobSchedulingContext.
\* A mutant of Qctx_AddSuccessful: a re-scheduled evictee keeps its place in
\* the evicted set.
Qctx_AddSuccessful_EvicteeStaysEvicted(qctx, jctx, evictedInThisRound) ==
    LET requests == Deref(jctx.PodRequirements).Requests
        pc == Deref(jctx.Job).PriorityClassName
        allocated == Qctx_Allocate(qctx, pc, requests)
    IN  IF evictedInThisRound
          THEN [allocated EXCEPT
                  !.EvictedResourcesByPriorityClass =
                      QSubV1ResourceList(@, pc, requests)]
          ELSE [allocated EXCEPT
                  !.SuccessfulJobSchedulingContexts = MapPut(@, jctx.JobId, jctx),
                  !.ScheduledResourcesByPriorityClass =
                      QAddV1ResourceList(@, pc, requests)]

Qctx_AddSuccessful(qctx, jctx, evictedInThisRound) ==
    LET requests == Deref(jctx.PodRequirements).Requests
        pc == Deref(jctx.Job).PriorityClassName
        allocated == Qctx_Allocate(qctx, pc, requests)
    IN  IF evictedInThisRound
          THEN [allocated EXCEPT
                  !.EvictedJobsById = @ \ {jctx.JobId},
                  !.EvictedResourcesByPriorityClass =
                      QSubV1ResourceList(@, pc, requests)]
          ELSE [allocated EXCEPT
                  !.SuccessfulJobSchedulingContexts = MapPut(@, jctx.JobId, jctx),
                  !.ScheduledResourcesByPriorityClass =
                      QAddV1ResourceList(@, pc, requests)]

\* The unsuccessful branch of QueueSchedulingContext.AddJobSchedulingContext.
\* A mutant of Qctx_AddUnsuccessful: a job marked unsuccessful leaves the
\* evicted set.
Qctx_AddUnsuccessful_LeavesEvicted(qctx, jctx) ==
    [qctx EXCEPT
        !.UnsuccessfulJobSchedulingContexts = MapPut(@, jctx.JobId, jctx),
        !.EvictedJobsById = @ \ {jctx.JobId}]

Qctx_AddUnsuccessful(qctx, jctx) ==
    [qctx EXCEPT
        !.UnsuccessfulJobSchedulingContexts = MapPut(@, jctx.JobId, jctx)]

\* A mutant of Qctx_AddJobSchedulingContext: a job id already marked
\* unsuccessful is not rejected.
Qctx_AddJobSchedulingContext_NoUnsuccessfulCheck(qctx, jctx) ==
    IF jctx.JobId \in DOMAIN qctx.SuccessfulJobSchedulingContexts
      THEN Result(qctx, FALSE, "DuplicateJobDecision")
    ELSE LET evictedInThisRound == jctx.JobId \in qctx.EvictedJobsById
         IN  IF IsSuccessful(jctx)
               THEN IF jctx.PodRequirements = Nil
                      THEN Result(qctx, FALSE, "MissingPodRequirements")
                      ELSE Result(Qctx_AddSuccessful(qctx, jctx, evictedInThisRound),
                                  evictedInThisRound, NoError)
               ELSE Result(Qctx_AddUnsuccessful(qctx, jctx),
                           evictedInThisRound, NoError)

\* A mutant of Qctx_AddJobSchedulingContext: pod requirements are demanded
\* of an unsuccessful JobSchedulingContext too.
Qctx_AddJobSchedulingContext_RequirementsAlways(qctx, jctx) ==
    IF jctx.JobId \in DOMAIN qctx.SuccessfulJobSchedulingContexts
      THEN Result(qctx, FALSE, "DuplicateJobDecision")
    ELSE IF jctx.JobId \in DOMAIN qctx.UnsuccessfulJobSchedulingContexts
      THEN Result(qctx, FALSE, "DuplicateJobDecision")
    ELSE IF jctx.PodRequirements = Nil
      THEN Result(qctx, FALSE, "MissingPodRequirements")
    ELSE LET evictedInThisRound == jctx.JobId \in qctx.EvictedJobsById
         IN  IF IsSuccessful(jctx)
               THEN Result(Qctx_AddSuccessful(qctx, jctx, evictedInThisRound),
                           evictedInThisRound, NoError)
               ELSE Result(Qctx_AddUnsuccessful(qctx, jctx),
                           evictedInThisRound, NoError)

\* A mutant of Qctx_AddJobSchedulingContext: a job id already marked
\* successful is not rejected.
Qctx_AddJobSchedulingContext_NoSuccessfulCheck(qctx, jctx) ==
    IF jctx.JobId \in DOMAIN qctx.UnsuccessfulJobSchedulingContexts
      THEN Result(qctx, FALSE, "DuplicateJobDecision")
    ELSE LET evictedInThisRound == jctx.JobId \in qctx.EvictedJobsById
         IN  IF IsSuccessful(jctx)
               THEN IF jctx.PodRequirements = Nil
                      THEN Result(qctx, FALSE, "MissingPodRequirements")
                      ELSE Result(Qctx_AddSuccessful(qctx, jctx, evictedInThisRound),
                                  evictedInThisRound, NoError)
               ELSE Result(Qctx_AddUnsuccessful(qctx, jctx),
                           evictedInThisRound, NoError)

Qctx_AddJobSchedulingContext(qctx, jctx) ==
    IF jctx.JobId \in DOMAIN qctx.SuccessfulJobSchedulingContexts
      THEN Result(qctx, FALSE, "DuplicateJobDecision")
    ELSE IF jctx.JobId \in DOMAIN qctx.UnsuccessfulJobSchedulingContexts
      THEN Result(qctx, FALSE, "DuplicateJobDecision")
    ELSE LET evictedInThisRound == jctx.JobId \in qctx.EvictedJobsById
         IN  IF IsSuccessful(jctx)
               THEN IF jctx.PodRequirements = Nil
                      THEN Result(qctx, FALSE, "MissingPodRequirements")
                      ELSE Result(Qctx_AddSuccessful(qctx, jctx, evictedInThisRound),
                                  evictedInThisRound, NoError)
               ELSE Result(Qctx_AddUnsuccessful(qctx, jctx),
                           evictedInThisRound, NoError)

\* QueueSchedulingContext.AddGangSchedulingContext: the members in order,
\* stopping at the first one that is rejected.
RECURSIVE Qctx_AddGangSchedulingContext(_, _)
Qctx_AddGangSchedulingContext(qctx, gctx) ==
    IF gctx = << >>
      THEN Result(qctx, FALSE, NoError)
      ELSE LET r == Qctx_AddJobSchedulingContext(qctx, Head(gctx))
           IN  IF r.err # NoError
                 THEN Result(r.obj, FALSE, r.err)
                 ELSE Qctx_AddGangSchedulingContext(r.obj, Tail(gctx))

\* A mutant of Qctx_Deallocate: the per-class table is left as it was.
Qctx_Deallocate_TotalOnly(qctx, pc, rl) ==
    [qctx EXCEPT !.Allocated = RLSub(@, rl)]

\* Allocated and AllocatedByPriorityClass shrink together.
Qctx_Deallocate(qctx, pc, rl) ==
    [qctx EXCEPT
        !.Allocated = RLSub(@, rl),
        !.AllocatedByPriorityClass = QSubV1ResourceList(@, pc, rl)]

\* A mutant of Qctx_Evict: a job scheduled in this round is, like any other
\* job, entered in the evicted set and the evicted table.
Qctx_Evict_AlwaysMarkEvicted(qctx, job, scheduledInThisRound) ==
    LET rl == job.Requests
        pc == job.PriorityClassName
        moved ==
            [qctx EXCEPT
                !.SuccessfulJobSchedulingContexts = MapDelete(@, job.Id),
                !.EvictedResourcesByPriorityClass = QAddV1ResourceList(@, pc, rl),
                !.EvictedJobsById = @ \cup {job.Id}]
    IN  Qctx_Deallocate(moved, pc, rl)

\* A mutant of Qctx_Evict: the allocation of the queue is left as it was.
Qctx_Evict_KeepsAllocated(qctx, job, scheduledInThisRound) ==
    LET rl == job.Requests
        pc == job.PriorityClassName
    IN  IF scheduledInThisRound
          THEN [qctx EXCEPT
                  !.ScheduledResourcesByPriorityClass =
                      QSubV1ResourceList(@, pc, rl),
                  !.SuccessfulJobSchedulingContexts = MapDelete(@, job.Id)]
          ELSE [qctx EXCEPT
                  !.EvictedResourcesByPriorityClass =
                      QAddV1ResourceList(@, pc, rl),
                  !.EvictedJobsById = @ \cup {job.Id}]

\* The bookkeeping of QueueSchedulingContext.EvictJob once it is accepted.
Qctx_Evict(qctx, job, scheduledInThisRound) ==
    LET rl == job.Requests
        pc == job.PriorityClassName
        moved ==
            IF scheduledInThisRound
              THEN [qctx EXCEPT
                      !.ScheduledResourcesByPriorityClass =
                          QSubV1ResourceList(@, pc, rl),
                      !.SuccessfulJobSchedulingContexts = MapDelete(@, job.Id)]
              ELSE [qctx EXCEPT
                      !.EvictedResourcesByPriorityClass =
                          QAddV1ResourceList(@, pc, rl),
                      !.EvictedJobsById = @ \cup {job.Id}]
    IN  Qctx_Deallocate(moved, pc, rl)

\* A mutant of Qctx_EvictJob: a job scheduled in this round cannot be
\* evicted.
Qctx_EvictJob_RejectsSuccessful(qctx, job) ==
    IF job.Id \in DOMAIN qctx.UnsuccessfulJobSchedulingContexts
      THEN Result(qctx, FALSE, "InvalidEviction")
    ELSE IF job.Id \in qctx.EvictedJobsById
      THEN Result(qctx, FALSE, "InvalidEviction")
    ELSE IF job.Id \in DOMAIN qctx.SuccessfulJobSchedulingContexts
      THEN Result(qctx, FALSE, "InvalidEviction")
    ELSE Result(Qctx_Evict(qctx, job, FALSE), FALSE, NoError)

\* A mutant of Qctx_EvictJob: a job id already marked evicted is not
\* rejected.
Qctx_EvictJob_NoEvictedCheck(qctx, job) ==
    IF job.Id \in DOMAIN qctx.UnsuccessfulJobSchedulingContexts
      THEN Result(qctx, FALSE, "InvalidEviction")
    ELSE LET scheduledInThisRound ==
                 job.Id \in DOMAIN qctx.SuccessfulJobSchedulingContexts
         IN  Result(Qctx_Evict(qctx, job, scheduledInThisRound),
                    scheduledInThisRound, NoError)

\* A mutant of Qctx_EvictJob: a job id already marked unsuccessful is not
\* rejected.
Qctx_EvictJob_NoUnsuccessfulCheck(qctx, job) ==
    IF job.Id \in qctx.EvictedJobsById
      THEN Result(qctx, FALSE, "InvalidEviction")
    ELSE LET scheduledInThisRound ==
                 job.Id \in DOMAIN qctx.SuccessfulJobSchedulingContexts
         IN  Result(Qctx_Evict(qctx, job, scheduledInThisRound),
                    scheduledInThisRound, NoError)

Qctx_EvictJob(qctx, job) ==
    IF job.Id \in DOMAIN qctx.UnsuccessfulJobSchedulingContexts
      THEN Result(qctx, FALSE, "InvalidEviction")
    ELSE IF job.Id \in qctx.EvictedJobsById
      THEN Result(qctx, FALSE, "InvalidEviction")
    ELSE LET scheduledInThisRound ==
                 job.Id \in DOMAIN qctx.SuccessfulJobSchedulingContexts
         IN  Result(Qctx_Evict(qctx, job, scheduledInThisRound),
                    scheduledInThisRound, NoError)

(***************************************************************************)
(* SchedulingContext.                                                      *)
(***************************************************************************)
\* schedulerobjects.SchedulingKey: equal for equal placement requirements.
\* Node selector, affinity and tolerations are the same for all Jobs.
SchedulingKeyFromLegacySchedulerJob(job) ==
    LET priority == IF job.PriorityClassName \in DOMAIN PriorityClasses
                      THEN PriorityClasses[job.PriorityClassName]
                      ELSE 0
    IN  <<job.Requests, priority>>

SchedulingKeys == {SchedulingKeyFromLegacySchedulerJob(j) : j \in Jobs}

NewSchedulingContext ==
    [ WeightSum |-> 0,
      QueueSchedulingContexts |-> EmptyMap,
      ScheduledResources |-> ZeroResourceList,
      ScheduledResourcesByPriorityClass |-> EmptyQuantityByPC,
      EvictedResources |-> ZeroResourceList,
      EvictedResourcesByPriorityClass |-> EmptyQuantityByPC,
      NumScheduledJobs |-> 0,
      NumScheduledGangs |-> 0,
      NumEvictedJobs |-> 0,
      UnfeasibleSchedulingKeys |-> EmptyMap ]

\* A mutant of ClearUnfeasibleSchedulingKeys: the new map is not stored in
\* the Round.
ClearUnfeasibleSchedulingKeys_KeepsEntries(s) == s

ClearUnfeasibleSchedulingKeys(s) ==
    [s EXCEPT !.UnfeasibleSchedulingKeys = EmptyMap]

\* A caller's sctx.UnfeasibleSchedulingKeys[key] = jctx.
InsertUnfeasibleSchedulingKey(s, key, jctx) ==
    [s EXCEPT !.UnfeasibleSchedulingKeys = MapPut(@, key, jctx)]

\* A mutant of AddQueueSchedulingContext: the weight is accumulated before
\* the queue name is checked.
AddQueueSchedulingContext_WeightFirst(s, queue, weight, initialAllocatedByPriorityClass) ==
    IF queue \in DOMAIN s.QueueSchedulingContexts
      THEN Result([s EXCEPT !.WeightSum = @ + weight], FALSE, "DuplicateQueue")
      ELSE Result(
             [s EXCEPT
                !.WeightSum = @ + weight,
                !.QueueSchedulingContexts =
                    MapPut(@, queue,
                           NewQueueSchedulingContext(
                               queue, weight, initialAllocatedByPriorityClass))],
             FALSE, NoError)

AddQueueSchedulingContext(s, queue, weight, initialAllocatedByPriorityClass) ==
    IF queue \in DOMAIN s.QueueSchedulingContexts
      THEN Result(s, FALSE, "DuplicateQueue")
      ELSE Result(
             [s EXCEPT
                !.WeightSum = @ + weight,
                !.QueueSchedulingContexts =
                    MapPut(@, queue,
                           NewQueueSchedulingContext(
                               queue, weight, initialAllocatedByPriorityClass))],
             FALSE, NoError)

\* A mutant of Sctx_CountAdded: a re-scheduled evictee is counted as newly
\* scheduled instead of being taken off the evicted totals.
Sctx_CountAdded_AlwaysScheduled(s, jctx, evictedInThisRound) ==
    LET requests == Deref(jctx.PodRequirements).Requests
        pc == Deref(jctx.Job).PriorityClassName
    IN  IF ~IsSuccessful(jctx) THEN s
        ELSE [s EXCEPT
                !.ScheduledResources = RLAdd(@, requests),
                !.ScheduledResourcesByPriorityClass =
                    QAddV1ResourceList(@, pc, requests),
                !.NumScheduledJobs = @ + 1]

\* The Round's own counters after the QueueSchedulingContext accepted jctx.
\* A mutant of Sctx_CountAdded: an evictee that fails to be re-scheduled is
\* taken off the Round's count of evicted jobs.
Sctx_CountAdded_UncountsFailedEvictee(s, jctx, evictedInThisRound) ==
    LET requests == Deref(jctx.PodRequirements).Requests
        pc == Deref(jctx.Job).PriorityClassName
    IN  IF evictedInThisRound
          THEN IF IsSuccessful(jctx)
                 THEN [s EXCEPT
                         !.EvictedResources = RLSub(@, requests),
                         !.EvictedResourcesByPriorityClass =
                             QSubV1ResourceList(@, pc, requests),
                         !.NumEvictedJobs = @ - 1]
                 ELSE [s EXCEPT !.NumEvictedJobs = @ - 1]
        ELSE IF IsSuccessful(jctx)
          THEN [s EXCEPT
                  !.ScheduledResources = RLAdd(@, requests),
                  !.ScheduledResourcesByPriorityClass =
                      QAddV1ResourceList(@, pc, requests),
                  !.NumScheduledJobs = @ + 1]
        ELSE s

\* A mutant of Sctx_CountAdded: the Round's totals are moved and its tables
\* by priority class are left as they were.
Sctx_CountAdded_TotalsOnly(s, jctx, evictedInThisRound) ==
    LET requests == Deref(jctx.PodRequirements).Requests
    IN  IF ~IsSuccessful(jctx) THEN s
        ELSE IF evictedInThisRound
          THEN [s EXCEPT
                  !.EvictedResources = RLSub(@, requests),
                  !.NumEvictedJobs = @ - 1]
          ELSE [s EXCEPT
                  !.ScheduledResources = RLAdd(@, requests),
                  !.NumScheduledJobs = @ + 1]

Sctx_CountAdded(s, jctx, evictedInThisRound) ==
    LET requests == Deref(jctx.PodRequirements).Requests
        pc == Deref(jctx.Job).PriorityClassName
    IN  IF ~IsSuccessful(jctx) THEN s
        ELSE IF evictedInThisRound
          THEN [s EXCEPT
                  !.EvictedResources = RLSub(@, requests),
                  !.EvictedResourcesByPriorityClass =
                      QSubV1ResourceList(@, pc, requests),
                  !.NumEvictedJobs = @ - 1]
          ELSE [s EXCEPT
                  !.ScheduledResources = RLAdd(@, requests),
                  !.ScheduledResourcesByPriorityClass =
                      QAddV1ResourceList(@, pc, requests),
                  !.NumScheduledJobs = @ + 1]

\* A mutant of Sctx_AddJobSchedulingContext: a job recorded successful takes
\* its scheduling key out of the infeasible-key cache.
Sctx_AddJobSchedulingContext_DropsKey(s, jctx) ==
    IF Deref(jctx.Job).Queue \notin DOMAIN s.QueueSchedulingContexts
      THEN Result(s, FALSE, "UnknownQueue")
      ELSE LET r == Qctx_AddJobSchedulingContext(
                        s.QueueSchedulingContexts[Deref(jctx.Job).Queue], jctx)
               counted ==
                   Sctx_CountAdded(
                       [s EXCEPT !.QueueSchedulingContexts[Deref(jctx.Job).Queue] = r.obj],
                       jctx, r.ret)
           IN  IF r.err # NoError
                 THEN Result(s, FALSE, r.err)
                 ELSE Result(
                        IF IsSuccessful(jctx)
                          THEN [counted EXCEPT
                                  !.UnfeasibleSchedulingKeys =
                                      MapDelete(@, SchedulingKeyFromLegacySchedulerJob(
                                                       Deref(jctx.Job)))]
                          ELSE counted,
                        r.ret, NoError)

Sctx_AddJobSchedulingContext(s, jctx) ==
    IF Deref(jctx.Job).Queue \notin DOMAIN s.QueueSchedulingContexts
      THEN Result(s, FALSE, "UnknownQueue")
      ELSE LET r == Qctx_AddJobSchedulingContext(
                        s.QueueSchedulingContexts[Deref(jctx.Job).Queue], jctx)
           IN  IF r.err # NoError
                 THEN Result(s, FALSE, r.err)
                 ELSE Result(
                        Sctx_CountAdded(
                            [s EXCEPT
                               !.QueueSchedulingContexts[Deref(jctx.Job).Queue] = r.obj],
                            jctx, r.ret),
                        r.ret, NoError)

\* The loop of SchedulingContext.AddGangSchedulingContext over the members
\* not yet applied; rets are the values returned for the members applied.
RECURSIVE Sctx_AddGangMembers(_, _, _)
Sctx_AddGangMembers(s, gctx, rets) ==
    IF gctx = << >>
      THEN [obj |-> s, err |-> NoError, rets |-> rets]
      ELSE LET r == Sctx_AddJobSchedulingContext(s, Head(gctx))
           IN  IF r.err # NoError
                 THEN [obj |-> r.obj, err |-> r.err, rets |-> rets]
                 ELSE Sctx_AddGangMembers(r.obj, Tail(gctx), Append(rets, r.ret))

\* A mutant of GangIsScheduled: a gang of re-scheduled evictees counts too.
GangIsScheduled_AllSuccessful(gctx, rets) ==
    \A i \in DOMAIN gctx : IsSuccessful(gctx[i])

\* Whether a gang that was applied without error counts as scheduled.
GangIsScheduled(gctx, rets) ==
    LET allJobsEvictedInThisRound == \A i \in DOMAIN rets : rets[i]
        allJobsSuccessful == \A i \in DOMAIN gctx : IsSuccessful(gctx[i])
    IN  allJobsSuccessful /\ ~allJobsEvictedInThisRound

Sctx_AddGangSchedulingContext(s, gctx) ==
    LET r == Sctx_AddGangMembers(s, gctx, << >>)
    IN  IF r.err # NoError
          THEN [obj |-> r.obj, ret |-> FALSE, err |-> r.err, rets |-> r.rets]
          ELSE [obj |-> IF GangIsScheduled(gctx, r.rets)
                          THEN [r.obj EXCEPT !.NumScheduledGangs = @ + 1]
                          ELSE r.obj,
                ret |-> \A i \in DOMAIN r.rets : r.rets[i],
                err |-> NoError,
                rets |-> r.rets]

\* A mutant of Sctx_CountEvicted: the job counters are not moved.
Sctx_CountEvicted_ResourcesOnly(s, job, scheduledInThisRound) ==
    LET rl == job.Requests
        pc == job.PriorityClassName
    IN  IF scheduledInThisRound
          THEN [s EXCEPT
                  !.ScheduledResources = RLSub(@, rl),
                  !.ScheduledResourcesByPriorityClass =
                      QSubV1ResourceList(@, pc, rl)]
          ELSE [s EXCEPT
                  !.EvictedResources = RLAdd(@, rl),
                  !.EvictedResourcesByPriorityClass =
                      QAddV1ResourceList(@, pc, rl)]

\* The Round's own counters after the QueueSchedulingContext evicted job.
\* A mutant of Sctx_CountEvicted: every evicted job is counted as evicted,
\* whether or not it was scheduled in this round.
Sctx_CountEvicted_AlwaysEvicted(s, job, scheduledInThisRound) ==
    LET rl == job.Requests
        pc == job.PriorityClassName
    IN  [s EXCEPT
            !.EvictedResources = RLAdd(@, rl),
            !.EvictedResourcesByPriorityClass = QAddV1ResourceList(@, pc, rl),
            !.NumEvictedJobs = @ + 1]

\* A mutant of Sctx_CountEvicted: every evicted job is taken off the
\* scheduled counters, whether or not it was scheduled in this round.
Sctx_CountEvicted_AlwaysScheduled(s, job, scheduledInThisRound) ==
    LET rl == job.Requests
        pc == job.PriorityClassName
    IN  [s EXCEPT
            !.ScheduledResources = RLSub(@, rl),
            !.ScheduledResourcesByPriorityClass = QSubV1ResourceList(@, pc, rl),
            !.NumScheduledJobs = @ - 1]

Sctx_CountEvicted(s, job, scheduledInThisRound) ==
    LET rl == job.Requests
        pc == job.PriorityClassName
    IN  IF scheduledInThisRound
          THEN [s EXCEPT
                  !.ScheduledResources = RLSub(@, rl),
                  !.ScheduledResourcesByPriorityClass =
                      QSubV1ResourceList(@, pc, rl),
                  !.NumScheduledJobs = @ - 1]
          ELSE [s EXCEPT
                  !.EvictedResources = RLAdd(@, rl),
                  !.EvictedResourcesByPriorityClass =
                      QAddV1ResourceList(@, pc, rl),
                  !.NumEvictedJobs = @ + 1]

\* A mutant of Sctx_EvictJob: the Round's counters are moved before the
\* QueueSchedulingContext has accepted the eviction.
Sctx_EvictJob_CountsFirst(s, job) ==
    IF job.Queue \notin DOMAIN s.QueueSchedulingContexts
      THEN Result(s, FALSE, "UnknownQueue")
      ELSE LET r == Qctx_EvictJob(s.QueueSchedulingContexts[job.Queue], job)
               counted ==
                   Sctx_CountEvicted(
                       [s EXCEPT !.QueueSchedulingContexts[job.Queue] = r.obj],
                       job, r.ret)
           IN  IF r.err # NoError
                 THEN Result(counted, FALSE, r.err)
                 ELSE Result(counted, r.ret, NoError)

Sctx_EvictJob(s, job) ==
    IF job.Queue \notin DOMAIN s.QueueSchedulingContexts
      THEN Result(s, FALSE, "UnknownQueue")
      ELSE LET r == Qctx_EvictJob(s.QueueSchedulingContexts[job.Queue], job)
           IN  IF r.err # NoError
                 THEN Result(s, FALSE, r.err)
                 ELSE Result(
                        Sctx_CountEvicted(
                            [s EXCEPT !.QueueSchedulingContexts[job.Queue] = r.obj],
                            job, r.ret),
                        r.ret, NoError)

\* The loop of SchedulingContext.EvictGang over the jobs not yet evicted.
RECURSIVE Sctx_EvictGangMembers(_, _, _)
Sctx_EvictGangMembers(s, jobs, rets) ==
    IF jobs = << >>
      THEN [obj |-> s, err |-> NoError, rets |-> rets]
      ELSE LET r == Sctx_EvictJob(s, Head(jobs))
           IN  IF r.err # NoError
                 THEN [obj |-> r.obj, err |-> r.err, rets |-> rets]
                 ELSE Sctx_EvictGangMembers(r.obj, Tail(jobs), Append(rets, r.ret))

\* A mutant of EvictGang: one member scheduled in this round is enough for
\* the gang to be counted out.
EvictGang_AnyScheduled(s, jobs) ==
    LET r == Sctx_EvictGangMembers(s, jobs, << >>)
        anyJobScheduledInThisRound == \E i \in DOMAIN r.rets : r.rets[i]
    IN  IF r.err # NoError
          THEN [obj |-> r.obj, ret |-> FALSE, err |-> r.err, rets |-> r.rets]
          ELSE [obj |-> IF anyJobScheduledInThisRound
                          THEN [r.obj EXCEPT !.NumScheduledGangs = @ - 1]
                          ELSE r.obj,
                ret |-> anyJobScheduledInThisRound,
                err |-> NoError,
                rets |-> r.rets]

\* A mutant of EvictGang: the gang counter is never decremented.
EvictGang_NeverCounts(s, jobs) ==
    LET r == Sctx_EvictGangMembers(s, jobs, << >>)
        allJobsScheduledInThisRound == \A i \in DOMAIN r.rets : r.rets[i]
    IN  IF r.err # NoError
          THEN [obj |-> r.obj, ret |-> FALSE, err |-> r.err, rets |-> r.rets]
          ELSE [obj |-> r.obj,
                ret |-> allJobsScheduledInThisRound,
                err |-> NoError,
                rets |-> r.rets]

EvictGang(s, jobs) ==
    LET r == Sctx_EvictGangMembers(s, jobs, << >>)
        allJobsScheduledInThisRound == \A i \in DOMAIN r.rets : r.rets[i]
    IN  IF r.err # NoError
          THEN [obj |-> r.obj, ret |-> FALSE, err |-> r.err, rets |-> r.rets]
          ELSE [obj |-> IF allJobsScheduledInThisRound
                          THEN [r.obj EXCEPT !.NumScheduledGangs = @ - 1]
                          ELSE r.obj,
                ret |-> allJobsScheduledInThisRound,
                err |-> NoError,
                rets |-> r.rets]

\* What QuantityByTAndResourceType.DeepCopy returns: a table with storage
\* of its own.  A table handed out is a handle: the contents it had when it
\* was handed out, and the queue whose AllocatedByPriorityClass it shares
\* storage with ("" for storage of its own).
DeepCopy(t) == [table |-> t, aliases |-> ""]

\* What a holder of the handle h reads from it when the Round is s.
ReadTable(s, h) ==
    IF h.aliases = ""
      THEN h.table
      ELSE s.QueueSchedulingContexts[h.aliases].AllocatedByPriorityClass

\* A mutant of AllocatedByQueueAndPriority: the tables of the queues are
\* handed out themselves.
AllocatedByQueueAndPriority_NoCopy(s) ==
    Result(s,
           [queue \in { q \in DOMAIN s.QueueSchedulingContexts :
                          ~QIsZero(s.QueueSchedulingContexts[q].AllocatedByPriorityClass) }
              |-> [table |-> s.QueueSchedulingContexts[queue].AllocatedByPriorityClass,
                   aliases |-> queue]],
           NoError)

AllocatedByQueueAndPriority(s) ==
    Result(s,
           [queue \in { q \in DOMAIN s.QueueSchedulingContexts :
                          ~QIsZero(s.QueueSchedulingContexts[q].AllocatedByPriorityClass) }
              |-> DeepCopy(s.QueueSchedulingContexts[queue].AllocatedByPriorityClass)],
           NoError)

\* jctx.Job = nil
Jctx_ClearJob(jctx) == [jctx EXCEPT !.Job = Nil]

\* QueueSchedulingContext.ClearJobSpecs.
Qctx_ClearJobSpecs(qctx) ==
    [qctx EXCEPT
        !.SuccessfulJobSchedulingContexts =
            [id \in DOMAIN @ |-> Jctx_ClearJob(@[id])],
        !.UnsuccessfulJobSchedulingContexts =
            [id \in DOMAIN @ |-> Jctx_ClearJob(@[id])]]

\* The JobSchedulingContexts in the successful and unsuccessful sets of s.
JctxsOfQueues(s) ==
    UNION { { s.QueueSchedulingContexts[q].SuccessfulJobSchedulingContexts[id] :
                id \in DOMAIN s.QueueSchedulingContexts[q].SuccessfulJobSchedulingContexts }
            \cup
            { s.QueueSchedulingContexts[q].UnsuccessfulJobSchedulingContexts[id] :
                id \in DOMAIN s.QueueSchedulingContexts[q].UnsuccessfulJobSchedulingContexts } :
            q \in DOMAIN s.QueueSchedulingContexts }

\* The keys of the cache whose JobSchedulingContext may be the very object
\* a queue holds: the maps hold pointers, and a caller may have applied and
\* inserted one JobSchedulingContext or two with the same contents.
PossiblyShared(s) ==
    { key \in DOMAIN s.UnfeasibleSchedulingKeys :
        s.UnfeasibleSchedulingKeys[key] \in JctxsOfQueues(s) }

\* SchedulingContext.ClearJobSpecs, when the cache entries under the keys
\* in shared are objects that a queue holds too: the JobSchedulingContexts
\* of the queues lose their Job, seen through every pointer to them.
ClearJobSpecs(s, shared) ==
    [s EXCEPT
        !.QueueSchedulingContexts =
            [q \in DOMAIN @ |-> Qctx_ClearJobSpecs(@[q])],
        !.UnfeasibleSchedulingKeys =
            [key \in DOMAIN @ |->
                IF key \in shared THEN Jctx_ClearJob(@[key]) ELSE @[key]]]

(***************************************************************************)
(* The reporting projection and the fairness interface.                    *)
(***************************************************************************)
Verbosities == {0, 1, 3}

maxJobIdsToPrint == 1

\* The job ids of a decision set that a report may show: the first n keys
\* of the map, in the order its iteration happens to take; all the sets of
\* ids that can come out.
IdsToPrint(ids, n) ==
    { shown \in SUBSET ids :
        Cardinality(shown) = IF Cardinality(ids) > n THEN n ELSE Cardinality(ids) }

\* QueueSchedulingContext.ReportString: the data it renders.
Qctx_ReportString(qctx, verbosity) ==
    LET always ==
            [ Scheduled |-> AggregateByResource(qctx.ScheduledResourcesByPriorityClass),
              ScheduledByPriority |-> qctx.ScheduledResourcesByPriorityClass,
              Preempted |-> AggregateByResource(qctx.EvictedResourcesByPriorityClass),
              PreemptedByPriority |-> qctx.EvictedResourcesByPriorityClass ]
        unsuccessful == qctx.UnsuccessfulJobSchedulingContexts
        jobIdsByReason ==
            [ reason \in { unsuccessful[id].UnschedulableReason :
                             id \in DOMAIN unsuccessful } |->
                { id \in DOMAIN unsuccessful :
                    unsuccessful[id].UnschedulableReason = reason } ]
    IN  IF verbosity >= 0
          THEN always @@
               [ Queue |-> qctx.Queue,
                 Allocated |-> qctx.Allocated,
                 AllocatedByPriorityClass |-> qctx.AllocatedByPriorityClass,
                 NumScheduled |-> Cardinality(DOMAIN qctx.SuccessfulJobSchedulingContexts),
                 NumPreempted |-> Cardinality(qctx.EvictedJobsById),
                 NumUnschedulable |-> Cardinality(DOMAIN unsuccessful),
                 ScheduledJobs |->
                     IdsToPrint(DOMAIN qctx.SuccessfulJobSchedulingContexts,
                                maxJobIdsToPrint),
                 PreemptedJobs |-> IdsToPrint(qctx.EvictedJobsById, maxJobIdsToPrint),
                 UnschedulableJobs |->
                     [ reason \in DOMAIN jobIdsByReason |->
                         Cardinality(jobIdsByReason[reason]) ] ]
          ELSE always

\* A mutant of Sctx_ReportString: the queues without scheduled jobs are
\* filtered out of the Round's own map instead of out of a copy.
Sctx_ReportString_FiltersInPlace(s, verbosity) ==
    LET scheduled ==
            { q \in DOMAIN s.QueueSchedulingContexts :
                DOMAIN s.QueueSchedulingContexts[q].SuccessfulJobSchedulingContexts # {} }
    IN  Result([s EXCEPT !.QueueSchedulingContexts =
                             [q \in scheduled |-> s.QueueSchedulingContexts[q]]],
               [ ScheduledQueues |-> scheduled ],
               NoError)

\* SchedulingContext.ReportString: the data it renders.
Sctx_ReportString(s, verbosity) ==
    LET scheduled ==
            { q \in DOMAIN s.QueueSchedulingContexts :
                DOMAIN s.QueueSchedulingContexts[q].SuccessfulJobSchedulingContexts # {} }
        preempted ==
            { q \in DOMAIN s.QueueSchedulingContexts :
                s.QueueSchedulingContexts[q].EvictedJobsById # {} }
        blocks(qs) ==
            IF verbosity <= 0
              THEN [q \in qs |-> << >>]
              ELSE [q \in qs |->
                      Qctx_ReportString(s.QueueSchedulingContexts[q], verbosity - 2)]
    IN  Result(s,
               [ ScheduledResources |-> s.ScheduledResources,
                 PreemptedResources |-> s.EvictedResources,
                 NumScheduledGangs |-> s.NumScheduledGangs,
                 NumScheduledJobs |-> s.NumScheduledJobs,
                 NumEvictedJobs |-> s.NumEvictedJobs,
                 ScheduledQueues |-> blocks(scheduled),
                 PreemptedQueues |-> blocks(preempted) ],
               NoError)

\* GetQueue: the QueueSchedulingContext of the queue and whether there is one.
GetQueue(s, queue) ==
    IF queue \in DOMAIN s.QueueSchedulingContexts
      THEN Result(s, Ptr(s.QueueSchedulingContexts[queue]), NoError)
      ELSE Result(s, Nil, NoError)

GetAllocation(qctx) == Result(qctx, qctx.Allocated, NoError)

GetWeight(qctx) == Result(qctx, qctx.Weight, NoError)

\* fairness.CostProvider.CostFromQueue: a function of what the Queue
\* interface shows of the queue.
CostFromQueue(qctx) ==
    GetAllocation(qctx).ret["cpu"] + GetAllocation(qctx).ret["memory"]

RECURSIVE SumOfCosts(_, _)
SumOfCosts(s, qs) ==
    IF qs = {} THEN 0
    ELSE LET q == CHOOSE x \in qs : TRUE
         IN  CostFromQueue(s.QueueSchedulingContexts[q]) + SumOfCosts(s, qs \ {q})

TotalCost(s) == Result(s, SumOfCosts(s, DOMAIN s.QueueSchedulingContexts), NoError)

\* SchedulingContext.SuccessfulJobSchedulingContexts: the successful
\* JobSchedulingContexts of all queues.
SuccessfulJobSchedulingContexts(s) ==
    Result(s,
           UNION { { s.QueueSchedulingContexts[q].SuccessfulJobSchedulingContexts[id] :
                       id \in DOMAIN s.QueueSchedulingContexts[q].SuccessfulJobSchedulingContexts } :
                   q \in DOMAIN s.QueueSchedulingContexts },
           NoError)

(***************************************************************************)
(* SubmitFromLog: the service that reads event sequences from the log and  *)
(* hands their events to the submit server, one run of same-type events at *)
(* a time.                                                                 *)
(***************************************************************************)
\* The event types ProcessSubSequence has a case for, and two it has not.
HandledTypes ==
    { "SubmitJob", "CancelJob", "CancelJobSet", "ReprioritiseJob",
      "ReprioritiseJobSet", "JobRunRunning", "JobErrors" }

UnhandledTypes == { "JobSucceeded", "JobRunLeased" }

\* An event: its type, whether its job id parses, and (JobErrors) whether it
\* carries a terminal error.
Event(type, validId, terminal) ==
    [ type |-> type, validId |-> validId, terminal |-> terminal ]

Events ==
    { Event(t, TRUE, FALSE) : t \in (HandledTypes \ {"JobErrors"}) \cup UnhandledTypes }
    \cup { Event("CancelJob", FALSE, FALSE), Event("ReprioritiseJob", FALSE, FALSE) }
    \cup { Event("JobErrors", TRUE, TRUE), Event("JobErrors", FALSE, TRUE),
           Event("JobErrors", FALSE, FALSE) }

\* Event sequences of at most n events.
SequencesUpTo(n) == UNION { [1..k -> Events] : k \in 0..n }

\* What a handler returns: whether the events were processed, and the error.
Outcome(ok, err) == [ ok |-> ok, err |-> err ]

\* What the database, the event store and the compressor pool can do to one
\* handler call; the first failure the handler meets decides its outcome.
Faults ==
    { "none", "convert", "borrow", "compress", "network", "database", "report",
      "deadline", "priority", "jobNotFound", "jobError" }

\* A collection that stops after the event at index i.
collectEvents_OnlyFirst(i, events, t) ==
    IF i < Len(events) /\ events[i + 1].type = t
    THEN << events[i + 1] >>
    ELSE << >>

\* The events from index i (counted from 0) on that have the type t, up to
\* the first event of another type.
RECURSIVE collectEvents(_, _, _)
collectEvents(i, events, t) ==
    IF i < Len(events) /\ events[i + 1].type = t
    THEN << events[i + 1] >> \o collectEvents(i + 1, events, t)
    ELSE << >>

\* A default case that steps over one event only.
SkipSameType_OneEvent(j, events, t) ==
    IF j < Len(events) /\ events[j + 1].type = t THEN j + 1 ELSE j

\* The default case's loop: the first index from j on whose event is not of
\* type t, or the length of the sequence.
RECURSIVE SkipSameType(_, _, _)
SkipSameType(j, events, t) ==
    IF j < Len(events) /\ events[j + 1].type = t
    THEN SkipSameType(j + 1, events, t)
    ELSE j

AllValidIds(es) == \A k \in 1..Len(es) : es[k].validId

SubmitJobs(es, fault) ==
    IF fault = "convert" THEN Outcome(TRUE, "conversion failed")
    ELSE IF fault = "borrow" THEN Outcome(FALSE, "no compressor")
    ELSE IF fault = "compress" THEN Outcome(TRUE, "compression failed")
    ELSE IF fault = "network" THEN Outcome(FALSE, "network error")
    ELSE IF fault = "database" THEN Outcome(TRUE, "database error")
    ELSE IF fault = "report" THEN Outcome(TRUE, "report failed")
    ELSE Outcome(TRUE, NoError)

BatchedCancelJobsById(payloads, fault) ==
    IF payloads = 0 THEN Outcome(TRUE, NoError)
    ELSE IF fault = "network" THEN Outcome(FALSE, "network error")
    ELSE IF fault = "database" THEN Outcome(TRUE, "database error")
    ELSE IF fault = "deadline" THEN Outcome(FALSE, "deadline exceeded")
    ELSE Outcome(TRUE, NoError)

CancelJobs(es, fault) ==
    IF ~AllValidIds(es) THEN Outcome(FALSE, "invalid job id")
    ELSE BatchedCancelJobsById(Len(es), fault)

\* GetActiveJobIds fails, or the active jobs of the job set are cancelled.
CancelJobSet(fault) ==
    IF fault = "network" THEN Outcome(FALSE, "network error")
    ELSE IF fault = "database" THEN Outcome(TRUE, "database error")
    ELSE BatchedCancelJobsById(1, fault)

CancelJobSets(es, fault) == CancelJobSet(fault)

ReprioritizeJobs(es, fault) ==
    IF Len(es) = 0 THEN Outcome(TRUE, NoError)
    ELSE IF ~AllValidIds(es) THEN Outcome(TRUE, "invalid job id")
    ELSE IF fault = "network" THEN Outcome(FALSE, "network error")
    ELSE IF fault = "database" THEN Outcome(TRUE, "database error")
    ELSE IF fault = "priority" THEN Outcome(TRUE, "priorities differ")
    ELSE Outcome(TRUE, NoError)

ReprioritizeJobSet(fault) ==
    IF fault = "network" THEN Outcome(FALSE, "network error")
    ELSE IF fault = "database" THEN Outcome(TRUE, "database error")
    ELSE Outcome(TRUE, NoError)

\* Every event of the run is applied; the run is processed if each was.
ReprioritizeJobSets(es, fault) ==
    Outcome(\A k \in 1..Len(es) : ReprioritizeJobSet(fault).ok,
            IF Len(es) = 0 THEN NoError ELSE ReprioritizeJobSet(fault).err)

DeleteFailedJobs(es, fault) ==
    IF \E k \in 1..Len(es) : es[k].terminal /\ ~es[k].validId
    THEN Outcome(FALSE, "invalid job id")
    ELSE IF fault = "network" THEN Outcome(FALSE, "network error")
    ELSE IF fault = "database" THEN Outcome(FALSE, "database error")
    ELSE Outcome(TRUE, NoError)

\* Events whose job id does not parse are left out of the update.
UpdateJobStartTimes(es, fault) ==
    IF fault = "network" THEN Outcome(FALSE, "network error")
    ELSE IF fault = "database" THEN Outcome(FALSE, "database error")
    ELSE IF fault = "jobError" THEN Outcome(FALSE, "job error")
    ELSE Outcome(TRUE, NoError)

\* The failures each handler can meet.
FaultsOf(type) ==
    CASE type = "SubmitJob" ->
           { "none", "convert", "borrow", "compress", "network", "database",
             "report" }
      [] type \in { "CancelJob", "CancelJobSet" } ->
           { "none", "network", "database", "deadline" }
      [] type = "ReprioritiseJob" -> { "none", "network", "database", "priority" }
      [] type = "JobRunRunning" ->
           { "none", "network", "database", "jobNotFound", "jobError" }
      [] type \in { "ReprioritiseJobSet", "JobErrors" } ->
           { "none", "network", "database" }
      [] OTHER -> { "none" }

Handle(type, es, fault) ==
    CASE type = "SubmitJob" -> SubmitJobs(es, fault)
      [] type = "CancelJob" -> CancelJobs(es, fault)
      [] type = "CancelJobSet" -> CancelJobSets(es, fault)
      [] type = "ReprioritiseJob" -> ReprioritizeJobs(es, fault)
      [] type = "ReprioritiseJobSet" -> ReprioritizeJobSets(es, fault)
      [] type = "JobRunRunning" -> UpdateJobStartTimes(es, fault)
      [] type = "JobErrors" -> DeleteFailedJobs(es, fault)

\* What one call of ProcessSubSequence does: the index it was given, the
\* index and error it returns, the handler it called ("none" if none), the
\* events it handed to the handler and what the handler answered.
SubSequence(events, i, j, err, handler, es, ok) ==
    [ events |-> events, i |-> i, j |-> j, err |-> err, handler |-> handler,
      es |-> es, ok |-> ok ]

\* A ProcessSubSequence that moves on whatever the handler answered.
ProcessSubSequence_AdvancesAlways(i, events, fault) ==
    IF i < 0 \/ i >= Len(events)
    THEN SubSequence(events, i, i, "invalid argument", "none", << >>, FALSE)
    ELSE LET t == events[i + 1].type IN
         IF t \in HandledTypes
         THEN LET es == collectEvents(i, events, t)
                  r  == Handle(t, es, fault)
              IN  SubSequence(events, i, i + Len(es), r.err, t, es, r.ok)
         ELSE SubSequence(events, i, SkipSameType(i, events, t), NoError, "none",
                          << >>, FALSE)

ProcessSubSequence(i, events, fault) ==
    IF i < 0 \/ i >= Len(events)
    THEN SubSequence(events, i, i, "invalid argument", "none", << >>, FALSE)
    ELSE LET t == events[i + 1].type IN
         IF t \in HandledTypes
         THEN LET es == collectEvents(i, events, t)
                  r  == Handle(t, es, fault)
              IN  SubSequence(events, i, IF r.ok THEN i + Len(es) ELSE i, r.err, t, es,
                              r.ok)
         ELSE SubSequence(events, i, SkipSameType(i, events, t), NoError, "none",
                          << >>, FALSE)

\* The indices of the events that the call c dealt with for good: those
\* handed to a handler that reported them processed, or those skipped
\* because their type has no handler.
HandledBy(c) ==
    IF c.handler # "none"
    THEN IF c.ok THEN c.i..(c.i + Len(c.es) - 1) ELSE {}
    ELSE IF c.err = NoError THEN c.i..(c.j - 1) ELSE {}

(***************************************************************************)
(* The state machine: one Round, driven by one scheduler task.             *)
(***************************************************************************)
VARIABLES
    sctx,     \* the SchedulingContext with its QueueSchedulingContexts
    pre,      \* the SchedulingContext as it was before the last call
    last,     \* the call that just returned: its name, arguments, returned
              \* bool and error; NoCall once the caller has moved on
    direct,   \* whether a QueueSchedulingContext method was called directly
    returned, \* the map the last AllocatedByQueueAndPriority call returned,
              \* with the tables the caller read from it on return
    nOps,     \* calls made so far
    supplied, \* for each registered queue, the initial allocation by
              \* priority class its registration supplied (nil or a table)
    fate,     \* for each queue and job id, what the last accepted
              \* successful apply or eviction of the id in the queue did:
              \* "scheduled" (recorded successful), "rescheduled" (taken
              \* out of the evicted set), "evicted" (entered in the evicted
              \* set) or "unscheduled" (taken out of the successful set)
    run,      \* where SubmitFromLog.Run is: "receive" (top of its loop),
              \* "process" (inside ProcessSequence), "ack", "end" (end of
              \* one iteration) or "stopped"; "direct" while a caller other
              \* than Run holds the result of ProcessSubSequence
    msg,      \* the message Run received last
    index,    \* ProcessSequence's i: the index of the next event to process
    idle,     \* seconds since ProcessSequence's lastProgress
    result,   \* whether ProcessSequence has returned, and the bool returned
    acked,    \* whether msg has been ack'd
    sub,      \* the last call of ProcessSubSequence
    done      \* the indices of the events of msg that a handler has
              \* reported processed or that were skipped as unhandled

roundVars == <<sctx, pre, last, direct, returned, nOps, supplied, fate>>

sflVars == <<run, msg, index, idle, result, acked, sub, done>>

vars == <<sctx, pre, last, direct, returned, nOps, supplied, fate,
          run, msg, index, idle, result, acked, sub, done>>

Call(op, queue, jctxs, jobs, ret, err, rets) ==
    [ op |-> op, queue |-> queue, jctxs |-> jctxs, jobs |-> jobs,
      ret |-> ret, err |-> err, rets |-> rets ]

NoCall == Call("none", "", << >>, << >>, FALSE, NoError, << >>)

NothingReturned == [called |-> FALSE, rv |-> EmptyMap, seen |-> EmptyMap]

\* A message: what Run finds it to be, and the events it carries.
Message(kind, events) == [ kind |-> kind, events |-> events ]

NoMessage == Message("none", << >>)

NoSubSequence == SubSequence(<< >>, 0, 0, NoError, "none", << >>, FALSE)

NotReturned == [ returned |-> FALSE, ack |-> FALSE ]

Init ==
    /\ sctx = NewSchedulingContext
    /\ pre = NewSchedulingContext
    /\ last = NoCall
    /\ direct = FALSE
    /\ returned = NothingReturned
    /\ nOps = 0
    /\ supplied = EmptyMap
    /\ fate = EmptyMap
    /\ run = "receive"
    /\ msg = NoMessage
    /\ index = 0
    /\ idle = 0
    /\ result = NotReturned
    /\ acked = FALSE
    /\ sub = NoSubSequence
    /\ done = {}

\* What an accepted member call did to a job id in a queue.
Decision(queue, id, kind) == [ queue |-> queue, id |-> id, kind |-> kind ]

\* The applies of jctxs to qctx, in order, that were accepted, up to the
\* first one rejected.
RECURSIVE AcceptedApplies(_, _, _)
AcceptedApplies(qctx, queue, jctxs) ==
    IF jctxs = << >> THEN << >>
    ELSE LET r == Qctx_AddJobSchedulingContext(qctx, Head(jctxs))
             kind == IF ~IsSuccessful(Head(jctxs)) THEN "unsuccessful"
                     ELSE IF r.ret THEN "rescheduled" ELSE "scheduled"
         IN  IF r.err # NoError THEN << >>
             ELSE << Decision(queue, Head(jctxs).JobId, kind) >>
                  \o AcceptedApplies(r.obj, queue, Tail(jctxs))

\* The evictions of jobs from qctx, in order, that were accepted, up to the
\* first one rejected.
RECURSIVE AcceptedEvictions(_, _, _)
AcceptedEvictions(qctx, queue, jobs) ==
    IF jobs = << >> THEN << >>
    ELSE LET r == Qctx_EvictJob(qctx, Head(jobs))
             kind == IF r.ret THEN "unscheduled" ELSE "evicted"
         IN  IF r.err # NoError THEN << >>
             ELSE << Decision(queue, Head(jobs).Id, kind) >>
                  \o AcceptedEvictions(r.obj, queue, Tail(jobs))

\* The member calls that the call c, made on the Round s, had accepted.
Accepted(s, c) ==
    LET queue == IF c.queue # "" THEN c.queue
                 ELSE IF c.jctxs # << >> THEN Deref(c.jctxs[1].Job).Queue
                 ELSE IF c.jobs # << >> THEN c.jobs[1].Queue
                 ELSE ""
    IN  IF queue \notin DOMAIN s.QueueSchedulingContexts THEN << >>
        ELSE IF c.op \in { "AddJobSchedulingContext", "AddGangSchedulingContext",
                           "Queue.AddJobSchedulingContext",
                           "Queue.AddGangSchedulingContext" }
          THEN AcceptedApplies(s.QueueSchedulingContexts[queue], queue, c.jctxs)
        ELSE IF c.op \in { "EvictJob", "EvictGang", "Queue.EvictJob" }
          THEN AcceptedEvictions(s.QueueSchedulingContexts[queue], queue, c.jobs)
        ELSE << >>

\* The fates f after the accepted member calls ds; an unsuccessful
\* JobSchedulingContext neither schedules nor evicts.
RECURSIVE Fates(_, _)
Fates(f, ds) ==
    IF ds = << >> THEN f
    ELSE LET d == Head(ds)
         IN  Fates(IF d.kind = "unsuccessful" THEN f
                   ELSE MapPut(f, << d.queue, d.id >>, d.kind),
                   Tail(ds))

\* A call on the Round that leaves s and is recorded as c.
Call_(s, c, isDirect) ==
    /\ last = NoCall
    /\ nOps < MaxOps
    /\ nOps' = nOps + 1
    /\ supplied' = IF c.op = "AddQueueSchedulingContext" /\ c.err = NoError
                     THEN MapPut(supplied, c.queue, c.initial)
                     ELSE supplied
    /\ fate' = Fates(fate, Accepted(sctx, c))
    /\ pre' = sctx
    /\ sctx' = s
    /\ last' = c
    /\ direct' = (direct \/ isDirect)
    /\ UNCHANGED sflVars

\* A call that returns no map of allocations.
Step(s, c, isDirect) ==
    /\ Call_(s, c, isDirect)
    /\ UNCHANGED returned

RegisterQueue ==
    \E reg \in QueueRegistrations :
        LET r == AddQueueSchedulingContext(sctx, reg[1], reg[2], reg[3])
        IN  Step(r.obj,
                 Call("AddQueueSchedulingContext", reg[1], << >>, << >>,
                      r.ret, r.err, << >>) @@
                 [weight |-> reg[2], initial |-> reg[3]],
                 FALSE)

ApplyJob ==
    \E jctx \in Jctxs :
        LET r == Sctx_AddJobSchedulingContext(sctx, jctx)
        IN  Step(r.obj,
                 Call("AddJobSchedulingContext", "", <<jctx>>, << >>,
                      r.ret, r.err, << >>),
                 FALSE)

ApplyGang ==
    \E gctx \in Gangs :
        LET r == Sctx_AddGangSchedulingContext(sctx, gctx)
        IN  Step(r.obj,
                 Call("AddGangSchedulingContext", "", gctx, << >>,
                      r.ret, r.err, r.rets),
                 FALSE)

EvictOne ==
    \E job \in Jobs :
        LET r == Sctx_EvictJob(sctx, job)
        IN  Step(r.obj,
                 Call("EvictJob", "", << >>, <<job>>, r.ret, r.err, << >>),
                 FALSE)

EvictMany ==
    \E jobs \in JobLists :
        LET r == EvictGang(sctx, jobs)
        IN  Step(r.obj,
                 Call("EvictGang", "", << >>, jobs, r.ret, r.err, r.rets),
                 FALSE)

\* A mutant of Queue_AddJobSchedulingContext: the QueueSchedulingContext
\* follows its SchedulingContext field and moves the Round's counters too.
Queue_AddJobSchedulingContext_CountsInRound(s, queue, jctx) ==
    LET r == Qctx_AddJobSchedulingContext(s.QueueSchedulingContexts[queue], jctx)
        stored == [s EXCEPT !.QueueSchedulingContexts[queue] = r.obj]
    IN  IF r.err # NoError
          THEN Result(stored, r.ret, r.err)
          ELSE Result(Sctx_CountAdded(stored, jctx, r.ret), r.ret, r.err)

\* QueueSchedulingContext.AddJobSchedulingContext called on the
\* QueueSchedulingContext of s named queue: the Round after the call.
Queue_AddJobSchedulingContext(s, queue, jctx) ==
    LET r == Qctx_AddJobSchedulingContext(s.QueueSchedulingContexts[queue], jctx)
    IN  Result([s EXCEPT !.QueueSchedulingContexts[queue] = r.obj], r.ret, r.err)

\* The keys of the cache whose JobSchedulingContext may be the very object
\* that the QueueSchedulingContext named queue holds.
PossiblySharedWith(s, queue) ==
    LET qctx == s.QueueSchedulingContexts[queue]
    IN  { key \in DOMAIN s.UnfeasibleSchedulingKeys :
            s.UnfeasibleSchedulingKeys[key] \in
                { qctx.SuccessfulJobSchedulingContexts[id] :
                    id \in DOMAIN qctx.SuccessfulJobSchedulingContexts } \cup
                { qctx.UnsuccessfulJobSchedulingContexts[id] :
                    id \in DOMAIN qctx.UnsuccessfulJobSchedulingContexts } }

\* QueueSchedulingContext.ClearJobSpecs called on the QueueSchedulingContext
\* of s named queue, when the cache entries under the keys in shared are
\* objects this queue holds too: the Round after the call.
Queue_ClearJobSpecs(s, queue, shared) ==
    [s EXCEPT
        !.QueueSchedulingContexts[queue] = Qctx_ClearJobSpecs(@),
        !.UnfeasibleSchedulingKeys =
            [key \in DOMAIN @ |->
                IF key \in shared THEN Jctx_ClearJob(@[key]) ELSE @[key]]]

\* Calls made on a QueueSchedulingContext itself, reached through the
\* exported QueueSchedulingContexts map.
QueueApplyJob ==
    \E queue \in DOMAIN sctx.QueueSchedulingContexts, jctx \in Jctxs :
        LET r == Queue_AddJobSchedulingContext(sctx, queue, jctx)
        IN  Step(r.obj,
                 Call("Queue.AddJobSchedulingContext", queue, <<jctx>>, << >>,
                      r.ret, r.err, << >>),
                 TRUE)

QueueApplyGang ==
    \E queue \in DOMAIN sctx.QueueSchedulingContexts, gctx \in Gangs :
        LET r == Qctx_AddGangSchedulingContext(
                     sctx.QueueSchedulingContexts[queue], gctx)
        IN  Step([sctx EXCEPT !.QueueSchedulingContexts[queue] = r.obj],
                 Call("Queue.AddGangSchedulingContext", queue, gctx, << >>,
                      r.ret, r.err, << >>),
                 TRUE)

QueueEvictOne ==
    \E queue \in DOMAIN sctx.QueueSchedulingContexts, job \in Jobs :
        LET r == Qctx_EvictJob(sctx.QueueSchedulingContexts[queue], job)
        IN  Step([sctx EXCEPT !.QueueSchedulingContexts[queue] = r.obj],
                 Call("Queue.EvictJob", queue, << >>, <<job>>,
                      r.ret, r.err, << >>),
                 TRUE)

QueueClearSpecs ==
    \E queue \in DOMAIN sctx.QueueSchedulingContexts :
        \E shared \in SUBSET PossiblySharedWith(sctx, queue) :
            Step(Queue_ClearJobSpecs(sctx, queue, shared),
                 Call("Queue.ClearJobSpecs", queue, << >>, << >>,
                      FALSE, NoError, << >>),
                 TRUE)

InsertKey ==
    \E jctx \in {c \in Jctxs : ~IsSuccessful(c) /\ c.PodRequirements # Nil} :
        Step(InsertUnfeasibleSchedulingKey(
                 sctx, SchedulingKeyFromLegacySchedulerJob(Deref(jctx.Job)), jctx),
             Call("InsertUnfeasibleSchedulingKey", "", <<jctx>>, << >>,
                  FALSE, NoError, << >>),
             FALSE)

ClearKeys ==
    Step(ClearUnfeasibleSchedulingKeys(sctx),
         Call("ClearUnfeasibleSchedulingKeys", "", << >>, << >>,
              FALSE, NoError, << >>),
         FALSE)

ReadAllocations ==
    LET r == AllocatedByQueueAndPriority(sctx)
    IN  /\ Call_(r.obj,
                 Call("AllocatedByQueueAndPriority", "", << >>, << >>,
                      FALSE, NoError, << >>),
                 FALSE)
        /\ returned' = [called |-> TRUE,
                        rv |-> r.ret,
                        seen |-> [q \in DOMAIN r.ret |-> ReadTable(r.obj, r.ret[q])]]

ClearSpecs ==
    \E shared \in SUBSET PossiblyShared(sctx) :
        Step(ClearJobSpecs(sctx, shared),
             Call("ClearJobSpecs", "", << >>, << >>, FALSE, NoError, << >>),
             FALSE)

\* A call that returns a value: recorded with the value and its argument.
ReadCall(op, queue, value, verbosity) ==
    Call(op, queue, << >>, << >>, FALSE, NoError, << >>) @@
    [value |-> value, verbosity |-> verbosity]

Report ==
    \E verbosity \in Verbosities :
        LET r == Sctx_ReportString(sctx, verbosity)
        IN  Step(r.obj, ReadCall("ReportString", "", r.ret, verbosity), FALSE)

QueueReport ==
    \E queue \in DOMAIN sctx.QueueSchedulingContexts, verbosity \in Verbosities :
        LET r == Qctx_ReportString(sctx.QueueSchedulingContexts[queue], verbosity)
        IN  Step(sctx, ReadCall("Queue.ReportString", queue, r, verbosity), FALSE)

LookUpQueue ==
    \E queue \in {"A", "B"} :
        LET r == GetQueue(sctx, queue)
        IN  Step(r.obj, ReadCall("GetQueue", queue, r.ret, 0), FALSE)

ReadAllocation ==
    \E queue \in DOMAIN sctx.QueueSchedulingContexts :
        LET r == GetAllocation(sctx.QueueSchedulingContexts[queue])
        IN  Step([sctx EXCEPT !.QueueSchedulingContexts[queue] = r.obj],
                 ReadCall("GetAllocation", queue, r.ret, 0), FALSE)

ReadWeight ==
    \E queue \in DOMAIN sctx.QueueSchedulingContexts :
        LET r == GetWeight(sctx.QueueSchedulingContexts[queue])
        IN  Step([sctx EXCEPT !.QueueSchedulingContexts[queue] = r.obj],
                 ReadCall("GetWeight", queue, r.ret, 0), FALSE)

ReadTotalCost ==
    LET r == TotalCost(sctx)
    IN  Step(r.obj, ReadCall("TotalCost", "", r.ret, 0), FALSE)

ReadSuccessful ==
    LET r == SuccessfulJobSchedulingContexts(sctx)
    IN  Step(r.obj, ReadCall("SuccessfulJobSchedulingContexts", "", r.ret, 0), FALSE)

\* The caller takes the outcome of the call and goes on to its next call.
Return ==
    /\ last # NoCall
    /\ last' = NoCall
    /\ pre' = sctx
    /\ UNCHANGED <<sctx, direct, returned, nOps, supplied, fate>>
    /\ UNCHANGED sflVars

Next ==
    \/ Return
    \/ RegisterQueue
    \/ ApplyJob
    \/ ApplyGang
    \/ EvictOne
    \/ EvictMany
    \/ QueueApplyJob
    \/ QueueApplyGang
    \/ QueueEvictOne
    \/ QueueClearSpecs
    \/ InsertKey
    \/ ClearKeys
    \/ ClearSpecs
    \/ ReadAllocations
    \/ Report
    \/ QueueReport
    \/ LookUpQueue
    \/ ReadAllocation
    \/ ReadWeight
    \/ ReadTotalCost
    \/ ReadSuccessful

Spec == Init /\ [][Next]_vars

(***************************************************************************)
(* The state machine of SubmitFromLog: one Run loop, one message at a time. *)
(***************************************************************************)
\* Receive times out or fails: the iteration ends without a message.
ReceiveNothing ==
    /\ run = "receive"
    /\ run' = "end"
    /\ UNCHANGED <<msg, index, idle, result, acked, sub, done>>
    /\ UNCHANGED roundVars

\* A message that is not for this scheduler, or whose payload does not
\* unmarshal, is ack'd at once.
ReceiveAndIgnore ==
    /\ run = "receive"
    /\ \E kind \in { "other scheduler", "malformed" } :
          msg' = Message(kind, << >>)
    /\ acked' = TRUE
    /\ run' = "end"
    /\ UNCHANGED <<index, idle, result, sub, done>>
    /\ UNCHANGED roundVars

\* A message with an event sequence: Run enters ProcessSequence.
ReceiveSequence ==
    /\ run = "receive"
    /\ \E events \in SequencesUpTo(MaxEvents) :
          msg' = Message("sequence", events)
    /\ index' = 0
    /\ idle' = 0
    /\ run' = "process"
    /\ UNCHANGED <<result, acked, sub, done>>
    /\ UNCHANGED roundVars

\* A mutant of ProcessSequenceStep: the time since the last progress is not
\* looked at again after an attempt without progress.
ProcessSequenceStep_NoTimeout ==
    /\ run = "process"
    /\ index < Len(msg.events) /\ idle < Timeout
    /\ \E fault \in FaultsOf(msg.events[index + 1].type) :
          LET r == ProcessSubSequence(index, msg.events, fault) IN
              /\ sub' = r
              /\ index' = r.j
              /\ done' = done \cup HandledBy(r)
              /\ idle' = 0
    /\ UNCHANGED <<run, msg, result, acked>>
    /\ UNCHANGED roundVars

\* One iteration of ProcessSequence's loop.  Without progress the loop
\* sleeps a second, and the handler may have taken any time before that.
ProcessSequenceStep ==
    /\ run = "process"
    /\ index < Len(msg.events) /\ idle < Timeout
    /\ \E fault \in FaultsOf(msg.events[index + 1].type) :
          LET r == ProcessSubSequence(index, msg.events, fault) IN
              /\ sub' = r
              /\ index' = r.j
              /\ done' = done \cup HandledBy(r)
              /\ IF r.j = index
                 THEN \E t \in (idle + 1)..Timeout : idle' = t
                 ELSE idle' = 0
    /\ UNCHANGED <<run, msg, result, acked>>
    /\ UNCHANGED roundVars

\* ProcessSequence's loop has ended: it returns whether to ack.
ProcessSequenceReturn ==
    /\ run = "process"
    /\ ~(index < Len(msg.events) /\ idle < Timeout)
    /\ result' = [ returned |-> TRUE, ack |-> (index > 0 \/ Len(msg.events) = 0) ]
    /\ run' = "ack"
    /\ UNCHANGED <<msg, index, idle, acked, sub, done>>
    /\ UNCHANGED roundVars

\* Run acks the message after ProcessSequence has returned.
Ack ==
    /\ run = "ack"
    /\ acked' = TRUE
    /\ run' = "end"
    /\ UNCHANGED <<msg, index, idle, result, sub, done>>
    /\ UNCHANGED roundVars

\* Run goes round its loop: what the iteration held is gone.
Continue ==
    /\ run = "end"
    /\ run' = "receive"
    /\ msg' = NoMessage
    /\ index' = 0
    /\ idle' = 0
    /\ result' = NotReturned
    /\ acked' = FALSE
    /\ sub' = NoSubSequence
    /\ done' = {}
    /\ UNCHANGED roundVars

\* The context is cancelled: Run returns.
Stop ==
    /\ run = "receive"
    /\ run' = "stopped"
    /\ UNCHANGED <<msg, index, idle, result, acked, sub, done>>
    /\ UNCHANGED roundVars

\* ProcessSubSequence called on its own, with any index.
CallProcessSubSequence ==
    /\ run = "receive"
    /\ \E events \in SequencesUpTo(MaxEvents), k \in -1..(MaxEvents + 1),
          fault \in Faults :
          /\ k \in 0..(Len(events) - 1) => fault \in FaultsOf(events[k + 1].type)
          /\ k \notin 0..(Len(events) - 1) => fault = "none"
          /\ sub' = ProcessSubSequence(k, events, fault)
    /\ run' = "direct"
    /\ UNCHANGED <<msg, index, idle, result, acked, done>>
    /\ UNCHANGED roundVars

\* The caller of ProcessSubSequence has read what it returned.
DirectReturn ==
    /\ run = "direct"
    /\ run' = "receive"
    /\ sub' = NoSubSequence
    /\ UNCHANGED <<msg, index, idle, result, acked, done>>
    /\ UNCHANGED roundVars

SubmitFromLogNext ==
    \/ ReceiveNothing
    \/ ReceiveAndIgnore
    \/ ReceiveSequence
    \/ ProcessSequenceStep
    \/ ProcessSequenceReturn
    \/ Ack
    \/ Continue
    \/ Stop
    \/ CallProcessSubSequence
    \/ DirectReturn

SubmitFromLogSpec == Init /\ [][SubmitFromLogNext]_vars

(***************************************************************************)
(* Properties.                                                             *)
(***************************************************************************)
Queues == DOMAIN sctx.QueueSchedulingContexts
QueueRound(q) == sctx.QueueSchedulingContexts[q]

\* The sum of a per-priority-class table over its classes.
SumOverClasses(t) == [r \in ResourceNames |-> t["p1"][r] + t["p2"][r]]

\* The sum, over the queues qs, of the class totals of the tables t[q].
RECURSIVE SumOverQueues(_, _)
SumOverQueues(t, qs) ==
    IF qs = {} THEN ZeroResourceList
    ELSE LET q == CHOOSE x \in qs : TRUE
         IN  RLAdd(SumOverClasses(t[q]), SumOverQueues(t, qs \ {q}))

ScheduledByQueue(s) ==
    [q \in DOMAIN s.QueueSchedulingContexts |->
        s.QueueSchedulingContexts[q].ScheduledResourcesByPriorityClass]
EvictedByQueue(s) ==
    [q \in DOMAIN s.QueueSchedulingContexts |->
        s.QueueSchedulingContexts[q].EvictedResourcesByPriorityClass]

RoundOps ==
    { "AddQueueSchedulingContext", "AddJobSchedulingContext",
      "AddGangSchedulingContext", "EvictJob", "EvictGang" }

\* C1: after every call (accepted or rejected), every QueueRound's Allocated
\* equals, resource by resource, the sum of its AllocatedByPriorityClass
\* entries over the priority classes.
C1_AllocatedIsSumOfClasses ==
    \A q \in Queues :
        QueueRound(q).Allocated =
            SumOverClasses(QueueRound(q).AllocatedByPriorityClass)

\* C1 witness: a gang apply was rejected at a later member after an earlier
\* member was recorded, in a queue allocated in both priority classes.
C1_Witness ==
    /\ last.op = "AddGangSchedulingContext"
    /\ last.err # NoError
    /\ sctx # pre
    /\ \E q \in Queues :
          \A p \in PriorityClassNames :
              QueueRound(q).AllocatedByPriorityClass[p] # ZeroResourceList

\* The Round's totals agree with the sums over its QueueRounds.
RoundTotalsAreQueueSums ==
    /\ sctx.ScheduledResources = SumOverQueues(ScheduledByQueue(sctx), Queues)
    /\ sctx.EvictedResources = SumOverQueues(EvictedByQueue(sctx), Queues)

\* C2 as stated: after any sequence of public operations the Round's
\* ScheduledResources and EvictedResources equal the sums, over the queues
\* and priority classes, of the QueueRounds' scheduled and evicted tables.
C2_Original_TotalsAfterAnyPublicOperation == RoundTotalsAreQueueSums

\* C2 amended: the Round's totals equal the sums over its QueueRounds after
\* any sequence of operations made on the Round itself (registration, job
\* and gang apply, job and gang evict, rejected calls included); a method
\* called on a QueueRound directly moves the queue's tables only.
C2_TotalsAfterRoundOperations == ~direct => RoundTotalsAreQueueSums

\* C2 witness: only Round operations were made, and both the scheduled and
\* the evicted totals are non-zero.
C2_Witness ==
    /\ ~direct
    /\ sctx.ScheduledResources # ZeroResourceList
    /\ sctx.EvictedResources # ZeroResourceList

\* The job ids a QueueRound holds in each decision set.
SuccessfulIds(qctx) == DOMAIN qctx.SuccessfulJobSchedulingContexts
UnsuccessfulIds(qctx) == DOMAIN qctx.UnsuccessfulJobSchedulingContexts
EvictedIds(qctx) == qctx.EvictedJobsById

\* C3 as stated: in every QueueRound the successful, unsuccessful and
\* evicted job-id sets are pairwise disjoint, also after an unsuccessful
\* JobDecision was applied for a job id that is in the evicted set.
C3_Original_PairwiseDisjoint ==
    \A q \in Queues :
        /\ SuccessfulIds(QueueRound(q)) \cap UnsuccessfulIds(QueueRound(q)) = {}
        /\ SuccessfulIds(QueueRound(q)) \cap EvictedIds(QueueRound(q)) = {}
        /\ UnsuccessfulIds(QueueRound(q)) \cap EvictedIds(QueueRound(q)) = {}

\* The last call applied, on the Round or on QueueRound q directly, an
\* unsuccessful JobDecision that q accepted for a job id in q's evicted set.
UnsuccessfulApplyOfEvicted(q) ==
    /\ last.op \in {"AddJobSchedulingContext", "Queue.AddJobSchedulingContext"}
    /\ last.err = NoError
    /\ ~IsSuccessful(last.jctxs[1])
    /\ q = (IF last.op = "AddJobSchedulingContext"
              THEN Deref(last.jctxs[1].Job).Queue ELSE last.queue)
    /\ q \in DOMAIN pre.QueueSchedulingContexts
    /\ last.jctxs[1].JobId \in pre.QueueSchedulingContexts[q].EvictedJobsById

\* C3 amended: in every QueueRound the successful set is disjoint from the
\* unsuccessful set and from the evicted set; the unsuccessful and evicted
\* sets are not disjoint: an unsuccessful JobDecision applied for a job id
\* in the evicted set is recorded in unsuccessful and the id stays evicted.
C3_SuccessfulDisjointFromOthers ==
    /\ \A q \in Queues :
          /\ SuccessfulIds(QueueRound(q)) \cap UnsuccessfulIds(QueueRound(q)) = {}
          /\ SuccessfulIds(QueueRound(q)) \cap EvictedIds(QueueRound(q)) = {}
    /\ \A q \in Queues :
          UnsuccessfulApplyOfEvicted(q) =>
              last.jctxs[1].JobId \in
                  UnsuccessfulIds(QueueRound(q)) \cap EvictedIds(QueueRound(q))

\* C3 witness: an unsuccessful JobDecision was just applied on the Round for
\* a job that its queue holds as evicted.
C3_Witness ==
    \E q \in Queues :
        /\ UnsuccessfulApplyOfEvicted(q)
        /\ last.op = "AddJobSchedulingContext"

\* The sizes of the sets ids[q], summed over the queues qs.
RECURSIVE CountOverQueues(_, _)
CountOverQueues(ids, qs) ==
    IF qs = {} THEN 0
    ELSE LET q == CHOOSE x \in qs : TRUE
         IN  Cardinality(ids[q]) + CountOverQueues(ids, qs \ {q})

RoundCountsAreQueueCounts ==
    /\ sctx.NumScheduledJobs =
          CountOverQueues([q \in Queues |-> SuccessfulIds(QueueRound(q))], Queues)
    /\ sctx.NumEvictedJobs =
          CountOverQueues([q \in Queues |-> EvictedIds(QueueRound(q))], Queues)

\* C4 as stated: after any sequence of public operations NumScheduledJobs is
\* the total size of the successful sets and NumEvictedJobs the total size
\* of the evicted sets.
C4_Original_CountsAfterAnyPublicOperation == RoundCountsAreQueueCounts

\* C4 amended: NumScheduledJobs is the total size of the successful sets and
\* NumEvictedJobs the total size of the evicted sets after any sequence of
\* operations made on the Round itself; a method called on a QueueRound
\* directly changes the sets without the Round's counts.
C4_CountsAfterRoundOperations == ~direct => RoundCountsAreQueueCounts

\* C4 witness: only Round operations were made, a job is in a successful
\* set, another is in an evicted set, and the last call evicted a job that
\* had been scheduled in this round.
C4_Witness ==
    /\ ~direct
    /\ sctx.NumScheduledJobs > 0
    /\ sctx.NumEvictedJobs > 0
    /\ last.op \in {"EvictJob", "EvictGang"}
    /\ last.err = NoError

\* The fields the invariants of the Round speak of.
CoveredQueueFields(qctx) ==
    [ Allocated |-> qctx.Allocated,
      AllocatedByPriorityClass |-> qctx.AllocatedByPriorityClass,
      ScheduledResourcesByPriorityClass |-> qctx.ScheduledResourcesByPriorityClass,
      EvictedResourcesByPriorityClass |-> qctx.EvictedResourcesByPriorityClass,
      successful |-> SuccessfulIds(qctx),
      unsuccessful |-> UnsuccessfulIds(qctx),
      evicted |-> EvictedIds(qctx) ]
CoveredFields(s) ==
    [ queues |-> [q \in DOMAIN s.QueueSchedulingContexts |->
                     CoveredQueueFields(s.QueueSchedulingContexts[q])],
      ScheduledResources |-> s.ScheduledResources,
      EvictedResources |-> s.EvictedResources,
      NumScheduledJobs |-> s.NumScheduledJobs,
      NumEvictedJobs |-> s.NumEvictedJobs,
      NumScheduledGangs |-> s.NumScheduledGangs,
      WeightSum |-> s.WeightSum ]

\* C5: a call that returns an error, a gang apply or gang evict rejected at
\* its k-th member (k > 1) included, leaves every invariant-covered field of
\* the Round and of its QueueRounds as it was before the call.
C5_ErrorLeavesCoveredFieldsUnchanged ==
    last.err # NoError => CoveredFields(sctx) = CoveredFields(pre)

\* C5 failing case: a gang of two distinct jobs has been rejected at its
\* second member and the first member's decision stays recorded.
C5_Witness ==
    /\ last.op = "AddGangSchedulingContext"
    /\ last.err # NoError
    /\ Len(last.jctxs) = 2
    /\ last.jctxs[1].JobId # last.jctxs[2].JobId
    /\ CoveredFields(sctx) # CoveredFields(pre)
    /\ sctx.NumScheduledJobs = pre.NumScheduledJobs + 1

\* Whether job id is in none of the decision sets of queue q in s.
InNoDecisionSet(s, q, id) ==
    /\ q \in DOMAIN s.QueueSchedulingContexts
    /\ id \notin SuccessfulIds(s.QueueSchedulingContexts[q])
    /\ id \notin UnsuccessfulIds(s.QueueSchedulingContexts[q])
    /\ id \notin EvictedIds(s.QueueSchedulingContexts[q])

\* The last call was Round.EvictJob, accepted, of a job in no decision set.
EvictedFromNoSet ==
    /\ last.op = "EvictJob"
    /\ last.err = NoError
    /\ InNoDecisionSet(pre, last.jobs[1].Queue, last.jobs[1].Id)

\* C6: evict-then-schedule cancels.  When Round.EvictJob has evicted a job
\* (request R, class C, queue Q) that was in no decision set, applying a
\* successful JobDecision for the same job is accepted and restores the
\* Round's EvictedResources, ScheduledResources, NumEvictedJobs and
\* NumScheduledJobs and Q's scheduled and evicted entries of class C and
\* Q's Allocated to their values before the eviction, and the job id is in
\* neither Q.evicted nor Q.successful.
C6_EvictThenScheduleCancels ==
    EvictedFromNoSet =>
        LET job == last.jobs[1]
            r == Sctx_AddJobSchedulingContext(
                     sctx, JobSchedulingContext(job, TRUE, ""))
            before == pre.QueueSchedulingContexts[job.Queue]
            after == r.obj.QueueSchedulingContexts[job.Queue]
            pc == job.PriorityClassName
        IN  /\ r.err = NoError
            /\ r.obj.EvictedResources = pre.EvictedResources
            /\ r.obj.ScheduledResources = pre.ScheduledResources
            /\ r.obj.NumEvictedJobs = pre.NumEvictedJobs
            /\ r.obj.NumScheduledJobs = pre.NumScheduledJobs
            /\ after.ScheduledResourcesByPriorityClass[pc] =
                  before.ScheduledResourcesByPriorityClass[pc]
            /\ after.EvictedResourcesByPriorityClass[pc] =
                  before.EvictedResourcesByPriorityClass[pc]
            /\ after.Allocated = before.Allocated
            /\ job.Id \notin EvictedIds(after)
            /\ job.Id \notin SuccessfulIds(after)

\* C6 witness: Round.EvictJob has just evicted a job that was in no decision
\* set, so that the job is now in its queue's evicted set.
C6_Witness ==
    /\ EvictedFromNoSet
    /\ last.jobs[1].Id \in EvictedIds(QueueRound(last.jobs[1].Queue))
    /\ sctx.NumEvictedJobs = pre.NumEvictedJobs + 1

\* The last call was the Round's job apply, accepted, of a successful
\* JobDecision for a job in no decision set.
ScheduledFromNoSet ==
    /\ last.op = "AddJobSchedulingContext"
    /\ last.err = NoError
    /\ IsSuccessful(last.jctxs[1])
    /\ InNoDecisionSet(pre, Deref(last.jctxs[1].Job).Queue, last.jctxs[1].JobId)

\* C7: schedule-then-evict cancels.  When a successful JobDecision has been
\* applied for a job that was in no decision set, Round.EvictJob of the same
\* job is accepted, reports the job as scheduled in this round, and restores
\* the Round's ScheduledResources, EvictedResources, NumScheduledJobs and
\* NumEvictedJobs and the queue's Allocated, AllocatedByPriorityClass,
\* scheduled and evicted tables to their values before the apply; the job
\* id is then in none of the three sets.
C7_ScheduleThenEvictCancels ==
    ScheduledFromNoSet =>
        LET job == Deref(last.jctxs[1].Job)
            r == Sctx_EvictJob(sctx, job)
            before == pre.QueueSchedulingContexts[job.Queue]
            after == r.obj.QueueSchedulingContexts[job.Queue]
        IN  /\ r.err = NoError
            /\ r.ret
            /\ r.obj.ScheduledResources = pre.ScheduledResources
            /\ r.obj.EvictedResources = pre.EvictedResources
            /\ r.obj.NumScheduledJobs = pre.NumScheduledJobs
            /\ r.obj.NumEvictedJobs = pre.NumEvictedJobs
            /\ after.Allocated = before.Allocated
            /\ after.AllocatedByPriorityClass = before.AllocatedByPriorityClass
            /\ after.ScheduledResourcesByPriorityClass =
                  before.ScheduledResourcesByPriorityClass
            /\ after.EvictedResourcesByPriorityClass =
                  before.EvictedResourcesByPriorityClass
            /\ InNoDecisionSet(r.obj, job.Queue, job.Id)

\* C7 witness: a successful JobDecision has just been applied for a job that
\* was in no decision set, so that the job is now in the successful set.
C7_Witness ==
    /\ ScheduledFromNoSet
    /\ last.jctxs[1].JobId \in
          SuccessfulIds(QueueRound(Deref(last.jctxs[1].Job).Queue))
    /\ sctx.NumScheduledJobs = pre.NumScheduledJobs + 1

\* The last call was the Round's gang apply and returned no error.
GangApplied ==
    /\ last.op = "AddGangSchedulingContext"
    /\ last.err = NoError

\* The Round as it was when member i of the gang of the last call was
\* applied: after the members before it.
RoundBeforeMember(i) ==
    Sctx_AddGangMembers(pre, SubSeq(last.jctxs, 1, i - 1), << >>).obj

\* Whether member i of the gang of the last call was in its queue's evicted
\* set when it was applied.
MemberWasPreEvicted(i) ==
    LET jctx == last.jctxs[i]
    IN  jctx.JobId \in
            EvictedIds(RoundBeforeMember(i).QueueSchedulingContexts[Deref(jctx.Job).Queue])

\* The members of the gang of the last call that are successful and were
\* not pre-evicted.
NewlyScheduledMembers ==
    {i \in DOMAIN last.jctxs :
        IsSuccessful(last.jctxs[i]) /\ ~MemberWasPreEvicted(i)}

RECURSIVE SumOfRequests(_, _)
SumOfRequests(jctxs, is) ==
    IF is = {} THEN ZeroResourceList
    ELSE LET i == CHOOSE x \in is : TRUE
         IN  RLAdd(Deref(jctxs[i].Job).Requests, SumOfRequests(jctxs, is \ {i}))

\* C8: a gang apply that returns no error increments NumScheduledGangs by
\* exactly 1 when every member JobDecision is successful and at least one
\* member was not in its queue's evicted set when it was applied, and leaves
\* it unchanged in every other case; in all cases each successful member
\* that was not pre-evicted adds its request to the scheduled counters.
C8_GangCountedIffAllSuccessfulAndOneNew ==
    GangApplied =>
        /\ sctx.NumScheduledGangs =
              pre.NumScheduledGangs +
              (IF /\ \A i \in DOMAIN last.jctxs : IsSuccessful(last.jctxs[i])
                  /\ \E i \in DOMAIN last.jctxs : ~MemberWasPreEvicted(i)
                 THEN 1 ELSE 0)
        /\ sctx.ScheduledResources =
              RLAdd(pre.ScheduledResources,
                    SumOfRequests(last.jctxs, NewlyScheduledMembers))
        /\ sctx.NumScheduledJobs =
              pre.NumScheduledJobs + Cardinality(NewlyScheduledMembers)

\* C8 witness: a gang of two successful members was applied of which one
\* was pre-evicted and the other was not, and the gang was counted.
C8_Witness ==
    /\ GangApplied
    /\ Len(last.jctxs) = 2
    /\ \A i \in DOMAIN last.jctxs : IsSuccessful(last.jctxs[i])
    /\ \E i, k \in DOMAIN last.jctxs :
          MemberWasPreEvicted(i) /\ ~MemberWasPreEvicted(k)
    /\ sctx.NumScheduledGangs = pre.NumScheduledGangs + 1

\* Reachable too: a gang all of whose members were pre-evicted, and a gang
\* with an unsuccessful member next to a newly scheduled one.
C8_AllPreEvictedGangReached ==
    /\ GangApplied
    /\ Len(last.jctxs) = 2
    /\ \A i \in DOMAIN last.jctxs :
          IsSuccessful(last.jctxs[i]) /\ MemberWasPreEvicted(i)
C8_PartlyUnsuccessfulGangReached ==
    /\ GangApplied
    /\ NewlyScheduledMembers # {}
    /\ \E i \in DOMAIN last.jctxs : ~IsSuccessful(last.jctxs[i])

\* The scheduling keys of the jobs recorded in a successful set of s.
SuccessfulKeys(s) ==
    { SchedulingKeyFromLegacySchedulerJob(job) :
        job \in { j \in Jobs :
                    \E q \in DOMAIN s.QueueSchedulingContexts :
                        j.Id \in SuccessfulIds(s.QueueSchedulingContexts[q]) } }

CacheOps == {"InsertUnfeasibleSchedulingKey", "ClearUnfeasibleSchedulingKeys"}

\* C9 as stated: in every reachable state the infeasible-key cache contains
\* no scheduling key equal to the key of a job for which a successful
\* JobDecision has been recorded in the Round.
C9_Original_NoKeyOfSuccessfulJob ==
    DOMAIN sctx.UnfeasibleSchedulingKeys \cap SuccessfulKeys(sctx) = {}

\* C9 amended: the keys of the infeasible-key cache are changed by cache
\* inserts and cache clears only; queue registration and job and gang apply
\* and evict leave the cache as it was (ClearJobSpecs, of the Round or of a
\* queue, leaves its keys as they were), so a key stays in the cache when a successful JobDecision is
\* recorded for a job with that key.
C9_CacheChangedByInsertAndClearOnly ==
    last.op \notin CacheOps =>
        /\ DOMAIN sctx.UnfeasibleSchedulingKeys =
               DOMAIN pre.UnfeasibleSchedulingKeys
        /\ last.op \notin { "ClearJobSpecs", "Queue.ClearJobSpecs" } =>
               sctx.UnfeasibleSchedulingKeys = pre.UnfeasibleSchedulingKeys

\* C9 witness: a successful JobDecision has just been recorded for a job
\* whose scheduling key is in the cache.
C9_Witness ==
    /\ last.op = "AddJobSchedulingContext"
    /\ last.err = NoError
    /\ IsSuccessful(last.jctxs[1])
    /\ SchedulingKeyFromLegacySchedulerJob(Deref(last.jctxs[1].Job)) \in
          DOMAIN sctx.UnfeasibleSchedulingKeys
    /\ SchedulingKeyFromLegacySchedulerJob(Deref(last.jctxs[1].Job)) \in
          SuccessfulKeys(sctx)

RECURSIVE SumOfWeights(_, _)
SumOfWeights(s, qs) ==
    IF qs = {} THEN 0
    ELSE LET q == CHOOSE x \in qs : TRUE
         IN  s.QueueSchedulingContexts[q].Weight + SumOfWeights(s, qs \ {q})

\* C10: after any sequence of queue registrations, accepted or rejected,
\* WeightSum is the sum of the Weight fields of the registered QueueRounds,
\* and no apply or evict operation changes WeightSum.
C10_WeightSumIsSumOfWeights ==
    /\ sctx.WeightSum = SumOfWeights(sctx, Queues)
    /\ last.op # "AddQueueSchedulingContext" => sctx.WeightSum = pre.WeightSum

\* C10 witness: with two queues registered, a registration of an existing
\* queue name has just been rejected.
C10_Witness ==
    /\ last.op = "AddQueueSchedulingContext"
    /\ last.err = "DuplicateQueue"
    /\ Cardinality(Queues) = 2
    /\ sctx.WeightSum > 0

\* The decision sets of the job's queue in the Round before the last call.
QueueBefore(queue) == pre.QueueSchedulingContexts[queue]

\* C11: a job apply on the Round returns an error exactly when the job's
\* queue has no QueueRound, or the job id is already in that queue's
\* successful or unsuccessful set, or the JobDecision is successful and has
\* no pod requirements; an unsuccessful JobDecision without pod requirements
\* and a JobDecision for an id that is only in the evicted set are accepted.
C11_ApplyRejectedIff ==
    last.op = "AddJobSchedulingContext" =>
        LET jctx == last.jctxs[1]
            queue == Deref(jctx.Job).Queue
        IN  (last.err # NoError) <=>
                \/ queue \notin DOMAIN pre.QueueSchedulingContexts
                \/ /\ queue \in DOMAIN pre.QueueSchedulingContexts
                   /\ jctx.JobId \in SuccessfulIds(QueueBefore(queue)) \cup
                                     UnsuccessfulIds(QueueBefore(queue))
                \/ IsSuccessful(jctx) /\ jctx.PodRequirements = Nil

\* C11 witness: an unsuccessful JobDecision without pod requirements has
\* been accepted for a job id that was in the evicted set only.
C11_Witness ==
    /\ last.op = "AddJobSchedulingContext"
    /\ last.err = NoError
    /\ ~IsSuccessful(last.jctxs[1])
    /\ last.jctxs[1].PodRequirements = Nil
    /\ last.jctxs[1].JobId \in EvictedIds(QueueBefore(Deref(last.jctxs[1].Job).Queue))

\* C12: EvictJob on the Round returns an error exactly when the job's queue
\* has no QueueRound, or the job id is already in that queue's unsuccessful
\* set or evicted set; a job in the successful set or in no set is evicted.
C12_EvictRejectedIff ==
    last.op = "EvictJob" =>
        LET job == last.jobs[1]
        IN  (last.err # NoError) <=>
                \/ job.Queue \notin DOMAIN pre.QueueSchedulingContexts
                \/ /\ job.Queue \in DOMAIN pre.QueueSchedulingContexts
                   /\ job.Id \in UnsuccessfulIds(QueueBefore(job.Queue)) \cup
                                 EvictedIds(QueueBefore(job.Queue))

\* C12 witness: a job that was in the successful set has been evicted.
C12_Witness ==
    /\ last.op = "EvictJob"
    /\ last.err = NoError
    /\ last.jobs[1].Id \in SuccessfulIds(QueueBefore(last.jobs[1].Queue))

SingleJobOps ==
    {"AddJobSchedulingContext", "EvictJob",
     "Queue.AddJobSchedulingContext", "Queue.EvictJob"}

\* C13: a rejected single-job apply or single-job evict changes nothing:
\* the Round and every QueueRound are after the call as they were before.
C13_RejectedSingleJobCallChangesNothing ==
    (last.op \in SingleJobOps /\ last.err # NoError) => sctx = pre

\* C13 witness: an eviction has been rejected by the QueueRound of a Round
\* that holds recorded decisions.
C13_Witness ==
    /\ last.op = "EvictJob"
    /\ last.err = "InvalidEviction"
    /\ sctx.NumEvictedJobs > 0

\* The per-class allocation supplied to a registration, a nil map counting
\* as empty.
SuppliedAllocation(initial) ==
    IF initial = Nil
      THEN [p \in PriorityClassNames |-> [r \in ResourceNames |-> 0]]
      ELSE Deref(initial)

\* C14: registering a queue name that already has a QueueRound returns an
\* error and leaves WeightSum, the set of QueueRounds and the existing
\* QueueRound unchanged; registering a new name creates a QueueRound with
\* empty decision sets, empty scheduled and evicted tables and Allocated
\* equal to the sum of the supplied per-class initial allocation.
C14_RegistrationOutcome ==
    last.op = "AddQueueSchedulingContext" =>
        IF last.queue \in DOMAIN pre.QueueSchedulingContexts
          THEN /\ last.err # NoError
               /\ sctx.WeightSum = pre.WeightSum
               /\ sctx.QueueSchedulingContexts = pre.QueueSchedulingContexts
          ELSE LET qctx == sctx.QueueSchedulingContexts[last.queue]
               IN  /\ last.err = NoError
                   /\ DOMAIN sctx.QueueSchedulingContexts =
                          DOMAIN pre.QueueSchedulingContexts \cup {last.queue}
                   /\ \A q \in DOMAIN pre.QueueSchedulingContexts :
                          sctx.QueueSchedulingContexts[q] =
                              pre.QueueSchedulingContexts[q]
                   /\ SuccessfulIds(qctx) = {}
                   /\ UnsuccessfulIds(qctx) = {}
                   /\ EvictedIds(qctx) = {}
                   /\ \A p \in PriorityClassNames, r \in ResourceNames :
                          /\ qctx.ScheduledResourcesByPriorityClass[p][r] = 0
                          /\ qctx.EvictedResourcesByPriorityClass[p][r] = 0
                   /\ qctx.Allocated =
                          SumOverClasses(SuppliedAllocation(last.initial))

\* C14 witness: a second queue has been registered with a non-empty initial
\* allocation.
C14_Witness ==
    /\ last.op = "AddQueueSchedulingContext"
    /\ last.err = NoError
    /\ last.initial # Nil
    /\ Cardinality(Queues) = 2
    /\ sctx.QueueSchedulingContexts[last.queue].Allocated # ZeroResourceList

MutatingOps ==
    {"AddJobSchedulingContext", "AddGangSchedulingContext", "EvictJob",
     "EvictGang"}

\* C15: AllocatedByQueueAndPriority returns a map whose keys are exactly
\* the registered queues whose AllocatedByPriorityClass is not entirely
\* zero, each with that queue's current AllocatedByPriorityClass; the call
\* changes nothing in the Round, and what was returned reads the same after
\* later operations on the Round.
C15_AllocatedByQueueAndPriorityIsCopy ==
    /\ last.op = "AllocatedByQueueAndPriority" =>
          /\ sctx = pre
          /\ DOMAIN returned.rv =
                { q \in Queues :
                    \E p \in PriorityClassNames, r \in ResourceNames :
                        QueueRound(q).AllocatedByPriorityClass[p][r] # 0 }
          /\ \A q \in DOMAIN returned.rv :
                ReadTable(sctx, returned.rv[q]) =
                    QueueRound(q).AllocatedByPriorityClass
    /\ returned.called =>
          \A q \in DOMAIN returned.rv :
              ReadTable(sctx, returned.rv[q]) = returned.seen[q]

\* C15 witness: after the map was returned, an accepted apply or evict has
\* changed the allocation of a queue that is in the map.
C15_Witness ==
    /\ returned.called
    /\ last.op \in MutatingOps
    /\ last.err = NoError
    /\ \E q \in DOMAIN returned.rv :
          /\ QueueRound(q).AllocatedByPriorityClass # returned.seen[q]
          /\ ReadTable(sctx, returned.rv[q]) = returned.seen[q]

ReadOnlyOps ==
    {"ReportString", "Queue.ReportString", "GetQueue", "GetAllocation",
     "GetWeight", "TotalCost", "SuccessfulJobSchedulingContexts"}

\* C16: the read-only operations (the reports of the Round and of a
\* QueueRound at any verbosity, GetQueue, GetAllocation, GetWeight,
\* TotalCost, SuccessfulJobSchedulingContexts) leave every counter, resource
\* table, decision set and the infeasible-key cache unchanged, in whatever
\* state they are called.
C16_ReadOnlyOperationsChangeNothing ==
    last.op \in ReadOnlyOps => sctx = pre

\* C16 witness: the Round has been reported, with its queue blocks, while
\* it holds a scheduled job.
C16_Witness ==
    /\ last.op = "ReportString"
    /\ last.verbosity > 0
    /\ sctx.NumScheduledJobs > 0
    /\ DOMAIN last.value.ScheduledQueues # {}

\* A JobDecision without its job handle.
WithoutJob(jctx) == [jctx EXCEPT !.Job = Nil]

\* C17: after ClearJobSpecs every JobDecision the Round retains, in a
\* queue's successful or unsuccessful set or as a value of the
\* infeasible-key cache, has no job handle, while its job id, unschedulable
\* reason and pod data, and all counters and set memberships of the Round
\* and its QueueRounds, are unchanged.
C17_ClearJobSpecsClearsEveryRetainedDecision ==
    last.op = "ClearJobSpecs" =>
        /\ \A q \in Queues :
              /\ \A id \in SuccessfulIds(QueueRound(q)) :
                    QueueRound(q).SuccessfulJobSchedulingContexts[id] =
                        WithoutJob(QueueBefore(q).SuccessfulJobSchedulingContexts[id])
              /\ \A id \in UnsuccessfulIds(QueueRound(q)) :
                    QueueRound(q).UnsuccessfulJobSchedulingContexts[id] =
                        WithoutJob(QueueBefore(q).UnsuccessfulJobSchedulingContexts[id])
        /\ DOMAIN sctx.UnfeasibleSchedulingKeys = DOMAIN pre.UnfeasibleSchedulingKeys
        /\ \A key \in DOMAIN sctx.UnfeasibleSchedulingKeys :
              sctx.UnfeasibleSchedulingKeys[key] =
                  WithoutJob(pre.UnfeasibleSchedulingKeys[key])
        /\ CoveredFields(sctx) = CoveredFields(pre)

\* C17 failing case: ClearJobSpecs has returned and a JobDecision that is
\* held by the cache and by no queue still has its job handle.
C17_Witness ==
    /\ last.op = "ClearJobSpecs"
    /\ \E key \in DOMAIN sctx.UnfeasibleSchedulingKeys :
          /\ sctx.UnfeasibleSchedulingKeys[key].Job # Nil
          /\ pre.UnfeasibleSchedulingKeys[key] \notin JctxsOfQueues(pre)

\* C18: ClearUnfeasibleSchedulingKeys leaves the infeasible-key cache
\* empty whatever it held, so that a lookup of a key inserted before
\* misses, and changes no counter, resource table or decision set.
C18_ClearEmptiesCacheOnly ==
    last.op = "ClearUnfeasibleSchedulingKeys" =>
        /\ \A key \in SchedulingKeys : key \notin DOMAIN sctx.UnfeasibleSchedulingKeys
        /\ sctx = [pre EXCEPT !.UnfeasibleSchedulingKeys = sctx.UnfeasibleSchedulingKeys]

\* C18 witness: the cache of a Round with a registered queue held a key
\* and has been cleared.
C18_Witness ==
    /\ last.op = "ClearUnfeasibleSchedulingKeys"
    /\ DOMAIN pre.UnfeasibleSchedulingKeys # {}
    /\ Queues # {}

\* C19 (the claim): a message that went through ProcessSequence is ack'd
\* only if ProcessSequence returned true, that is, only if at least one of
\* its events was applied or it had no events; a message for which no event
\* was processed is not ack'd by Run.
C19_AckedOnlyIfProcessSequenceSaysSo ==
    (acked /\ msg.kind = "sequence") => (result.returned /\ result.ack)

\* C19 witness: ProcessSequence gave up on the first event of a message
\* and returned false, and Run has ack'd the message.
C19_Witness ==
    /\ acked
    /\ msg.kind = "sequence"
    /\ Len(msg.events) > 0
    /\ index = 0
    /\ result.returned /\ ~result.ack

\* The index of the first event after index k whose type differs from that
\* of the event at k, or the number of events if there is none.
FirstOfOtherType(events, k) ==
    LET later == { n \in (k + 1)..(Len(events) - 1) :
                     events[n + 1].type # events[k + 1].type }
    IN  IF later = {} THEN Len(events)
        ELSE CHOOSE n \in later : \A o \in later : n <= o

\* C20: for an index within the sequence ProcessSubSequence returns j
\* between that index and the number of events, and j is either the index
\* itself (nothing processed) or the index of the first later event of
\* another type (the number of events if there is none); for an index
\* outside the sequence it returns an error, j equal to the index, and
\* calls no handler.
C20_ProcessSubSequenceReturnsRunBoundary ==
    sub # NoSubSequence =>
        IF sub.i >= 0 /\ sub.i < Len(sub.events)
        THEN /\ sub.i <= sub.j /\ sub.j <= Len(sub.events)
             /\ sub.j = sub.i \/ sub.j = FirstOfOtherType(sub.events, sub.i)
        ELSE /\ sub.err # NoError
             /\ sub.j = sub.i
             /\ sub.handler = "none"

\* C20 witness: a handler processed a run of two events that is followed by
\* an event of another type.
C20_Witness ==
    /\ sub.handler # "none"
    /\ sub.ok
    /\ sub.j = sub.i + 2
    /\ sub.j < Len(sub.events)

\* The indices of the events the last call of ProcessSubSequence handed to
\* a handler.
HandedToHandler(c) ==
    IF c.handler = "none" THEN {} ELSE c.i..(c.i + Len(c.es) - 1)

InProcessSequence == run \in { "process", "ack", "end" }

\* C21: ProcessSequence preserves the order of events: when a run of
\* events is handed to a handler, every event before the run has been
\* reported processed by a handler or skipped as unhandled; the index never
\* decreases; and no event is handed to a handler again once its
\* subsequence has been reported processed.
C21_ProcessSequencePreservesOrder ==
    /\ [](InProcessSequence =>
            \A k \in HandedToHandler(sub) : \A n \in 0..(k - 1) :
                n \in done \/ n \in HandedToHandler(sub))
    /\ [][(run = "process" /\ run' = "process") =>
            /\ index' >= index
            /\ \A k \in HandedToHandler(sub') : k \notin done]_vars

\* C21 witness: a handler has been handed the third event of a sequence
\* of three runs, the two events before it being done.
C21_Witness ==
    /\ run = "process"
    /\ Len(msg.events) = 3
    /\ sub.handler # "none"
    /\ sub.i = 2
    /\ done = { 0, 1 }
    /\ msg.events[1].type # msg.events[2].type
    /\ msg.events[2].type # msg.events[3].type

\* C22 (the claim): SubmitJobs reports its events as not processed only
\* when writing the jobs to the database fails with a network-related
\* error; for every other error it reports them processed, with the error.
C22_SubmitJobsNotProcessedOnlyOnNetworkError ==
    sub.handler = "SubmitJob" => (~sub.ok <=> sub.err = "network error")

\* C22 witness: SubmitJobs could not borrow a compressor and reported its
\* events as not processed.
C22_Witness ==
    /\ sub.handler = "SubmitJob"
    /\ sub.err = "no compressor"
    /\ ~sub.ok
    /\ sub.j = sub.i

\* The job with the given id: every job id carries one request and one
\* priority class.
JobOf(id) == CHOOSE j \in Jobs : j.Id = id

\* The sum of the requests of the jobs with the given ids.
RequestsOf(ids) == SumResourceLists([id \in ids |-> JobOf(id).Requests], ids)

\* The ids among ids whose job is of priority class p.
OfClass(ids, p) == { id \in ids : JobOf(id).PriorityClassName = p }

\* C23: counters are consistent with the recorded decisions.  In every
\* state reached through Round-level operations, for every queue q and
\* class p, q.ScheduledResourcesByPriorityClass[p] is the sum of the
\* requests of the jobs of class p in q.successful,
\* q.EvictedResourcesByPriorityClass[p] is the sum of the requests of the
\* jobs of class p in q.evicted, and q.Allocated is q's initial allocation
\* plus the requests of the jobs in q.successful minus those of the jobs in
\* q.evicted.
C23_CountersMatchRecordedDecisions ==
    ~direct =>
        \A q \in Queues :
            LET qctx == QueueRound(q) IN
                /\ \A p \in PriorityClassNames :
                      /\ qctx.ScheduledResourcesByPriorityClass[p] =
                            RequestsOf(OfClass(SuccessfulIds(qctx), p))
                      /\ qctx.EvictedResourcesByPriorityClass[p] =
                            RequestsOf(OfClass(EvictedIds(qctx), p))
                /\ qctx.Allocated =
                      RLSub(RLAdd(SumOverClasses(SuppliedAllocation(supplied[q])),
                                  RequestsOf(SuccessfulIds(qctx))),
                            RequestsOf(EvictedIds(qctx)))

\* C23 witness: a queue registered with an initial allocation holds a
\* successful job and an evicted job, all through Round-level operations.
C23_Witness ==
    /\ ~direct
    /\ \E q \in Queues :
          /\ SumOverClasses(SuppliedAllocation(supplied[q])) # ZeroResourceList
          /\ SuccessfulIds(QueueRound(q)) # {}
          /\ EvictedIds(QueueRound(q)) # {}

\* Whether, among the accepted member calls ds made when the fates were f,
\* one of the given kinds met a job id whose last fate was in after.
RECURSIVE Repeats(_, _, _, _)
Repeats(f, ds, kinds, after) ==
    IF ds = << >> THEN FALSE
    ELSE LET d == Head(ds)
             key == << d.queue, d.id >>
         IN  \/ /\ d.kind \in kinds
                /\ key \in DOMAIN f
                /\ f[key] \in after
             \/ Repeats(Fates(f, << d >>), Tail(ds), kinds, after)

\* A call is being made on the Round.
CallMade == last = NoCall /\ last' # NoCall

\* C24 (the claim): once a successful JobDecision for a job id has been
\* applied, whether it recorded the id as successful or re-scheduled an
\* evicted job, a second successful apply for the id with no eviction in
\* between is rejected.
C24_Original_SecondSuccessfulApplyRejected ==
    [][CallMade =>
         ~Repeats(fate, Accepted(sctx, last'), { "scheduled", "rescheduled" },
                  { "scheduled", "rescheduled" })]_vars

\* C24 (amended): once a successful JobDecision for a job id has been
\* applied and has recorded the id in the queue's successful set, a second
\* successful apply for the id with no eviction in between is rejected.
C24_SecondApplyOfRecordedJobRejected ==
    [][CallMade =>
         ~Repeats(fate, Accepted(sctx, last'), { "scheduled", "rescheduled" },
                  { "scheduled" })]_vars

\* C24 witness: a successful JobDecision with pod requirements has been
\* rejected for a job id whose last fate in the queue was to be recorded
\* successful.
C24_Witness ==
    /\ last.op = "AddJobSchedulingContext"
    /\ last.err # NoError
    /\ IsSuccessful(last.jctxs[1])
    /\ last.jctxs[1].PodRequirements # Nil
    /\ LET key == << Deref(last.jctxs[1].Job).Queue, last.jctxs[1].JobId >>
       IN  key \in DOMAIN fate /\ fate[key] = "scheduled"

\* C25 (the claim): once a job id has been evicted, whether the eviction
\* entered it in the evicted set or removed a job scheduled in this round,
\* a second eviction of the id with no successful apply in between is
\* rejected.
C25_Original_SecondEvictionRejected ==
    [][CallMade =>
         ~Repeats(fate, Accepted(sctx, last'), { "evicted", "unscheduled" },
                  { "evicted", "unscheduled" })]_vars

\* C25 (amended): once a job id has been evicted and entered in the queue's
\* evicted set, a second eviction of the id with no successful apply in
\* between is rejected.
C25_SecondEvictionOfEvictedJobRejected ==
    [][CallMade =>
         ~Repeats(fate, Accepted(sctx, last'), { "evicted", "unscheduled" },
                  { "evicted" })]_vars

\* C25 witness: the eviction of a job id has been rejected whose last fate
\* in the queue was to be entered in the evicted set, and which is not
\* marked unsuccessful.
C25_Witness ==
    /\ last.op = "EvictJob"
    /\ last.err # NoError
    /\ LET job == last.jobs[1]
           key == << job.Queue, job.Id >>
       IN  /\ key \in DOMAIN fate /\ fate[key] = "evicted"
           /\ job.Id \notin UnsuccessfulIds(QueueRound(job.Queue))

\* The Round as it was when member i of the job list of the last call was
\* evicted: after a single EvictJob for each member before it.
RECURSIVE RoundAfterEvictions(_, _)
RoundAfterEvictions(s, jobs) ==
    IF jobs = << >> THEN s
    ELSE RoundAfterEvictions(Sctx_EvictJob(s, Head(jobs)).obj, Tail(jobs))

RoundBeforeEviction(i) == RoundAfterEvictions(pre, SubSeq(last.jobs, 1, i - 1))

\* Whether member i of the job list of the last call was in its queue's
\* successful set when it was evicted.
MemberWasScheduled(i) ==
    LET job == last.jobs[i]
    IN  job.Id \in
            SuccessfulIds(RoundBeforeEviction(i).QueueSchedulingContexts[job.Queue])

\* C26: an EvictGang that returns no error decrements NumScheduledGangs by
\* exactly 1 if every job of the list was in its queue's successful set
\* when it was evicted and leaves it unchanged otherwise; it returns that
\* flag; and apart from NumScheduledGangs the Round is as single EvictJob
\* calls for the members, in order, leave it.
C26_EvictGangCountsGangOut ==
    (last.op = "EvictGang" /\ last.err = NoError) =>
        LET allScheduled == \A i \in DOMAIN last.jobs : MemberWasScheduled(i)
        IN  /\ sctx.NumScheduledGangs =
                  pre.NumScheduledGangs - (IF allScheduled THEN 1 ELSE 0)
            /\ last.ret = allScheduled
            /\ [sctx EXCEPT !.NumScheduledGangs = pre.NumScheduledGangs] =
                  RoundAfterEvictions(pre, last.jobs)

\* C26 witness: EvictGang has evicted two jobs of which one was scheduled
\* in this round and the other was not.
C26_Witness ==
    /\ last.op = "EvictGang"
    /\ last.err = NoError
    /\ Len(last.jobs) = 2
    /\ MemberWasScheduled(1)
    /\ ~MemberWasScheduled(2)

\* The last call was the Round's job apply, accepted, of a successful
\* JobDecision for a job id that was in its queue's evicted set.
RescheduledEvictee ==
    /\ last.op = "AddJobSchedulingContext"
    /\ last.err = NoError
    /\ IsSuccessful(last.jctxs[1])
    /\ last.jctxs[1].JobId \in
          EvictedIds(QueueBefore(Deref(last.jctxs[1].Job).Queue))

\* C27: applying a successful JobDecision for a job id in the queue's
\* evicted set adds the request to the queue's Allocated and
\* AllocatedByPriorityClass[class], removes the id from the evicted set,
\* subtracts the request from the queue's EvictedResourcesByPriorityClass
\* [class] and from the Round's evicted totals, decrements NumEvictedJobs
\* and returns true; the queue's successful set and scheduled table and the
\* Round's scheduled totals and NumScheduledJobs are unchanged.
C27_RescheduledEvicteeLeavesEvictedOnly ==
    RescheduledEvictee =>
        LET jctx == last.jctxs[1]
            job == Deref(jctx.Job)
            requests == Deref(jctx.PodRequirements).Requests
            pc == job.PriorityClassName
            before == QueueBefore(job.Queue)
            after == QueueRound(job.Queue)
        IN  /\ after.Allocated = RLAdd(before.Allocated, requests)
            /\ after.AllocatedByPriorityClass[pc] =
                  RLAdd(before.AllocatedByPriorityClass[pc], requests)
            /\ EvictedIds(after) = EvictedIds(before) \ {jctx.JobId}
            /\ after.EvictedResourcesByPriorityClass[pc] =
                  RLSub(before.EvictedResourcesByPriorityClass[pc], requests)
            /\ sctx.EvictedResources = RLSub(pre.EvictedResources, requests)
            /\ sctx.EvictedResourcesByPriorityClass[pc] =
                  RLSub(pre.EvictedResourcesByPriorityClass[pc], requests)
            /\ sctx.NumEvictedJobs = pre.NumEvictedJobs - 1
            /\ last.ret
            /\ after.SuccessfulJobSchedulingContexts =
                  before.SuccessfulJobSchedulingContexts
            /\ after.ScheduledResourcesByPriorityClass =
                  before.ScheduledResourcesByPriorityClass
            /\ sctx.ScheduledResources = pre.ScheduledResources
            /\ sctx.ScheduledResourcesByPriorityClass =
                  pre.ScheduledResourcesByPriorityClass
            /\ sctx.NumScheduledJobs = pre.NumScheduledJobs

\* C27 witness: a successful JobDecision has been applied for a job that the
\* Round had evicted, and the Round counts no evicted job any more.
C27_Witness ==
    /\ RescheduledEvictee
    /\ pre.NumEvictedJobs = 1
    /\ sctx.NumEvictedJobs = 0

\* C28: an EvictJob that returns no error always subtracts the job's request
\* from its queue's Allocated and AllocatedByPriorityClass[class].  If the
\* job id was in the queue's successful set it is removed from there, the
\* request is subtracted from the queue's and the Round's scheduled
\* counters, NumScheduledJobs is decremented, and the evicted set and the
\* evicted counters are untouched; otherwise the id is inserted into the
\* evicted set, the request is added to the queue's and the Round's evicted
\* counters, NumEvictedJobs is incremented, and the scheduled counters are
\* untouched.  The returned boolean is true exactly in the first case.
C28_EvictJobAccounting ==
    (last.op = "EvictJob" /\ last.err = NoError) =>
        LET job == last.jobs[1]
            rl == job.Requests
            pc == job.PriorityClassName
            before == QueueBefore(job.Queue)
            after == QueueRound(job.Queue)
            wasSuccessful == job.Id \in SuccessfulIds(before)
        IN  /\ after.Allocated = RLSub(before.Allocated, rl)
            /\ after.AllocatedByPriorityClass[pc] =
                  RLSub(before.AllocatedByPriorityClass[pc], rl)
            /\ last.ret = wasSuccessful
            /\ wasSuccessful =>
                  /\ SuccessfulIds(after) = SuccessfulIds(before) \ {job.Id}
                  /\ after.ScheduledResourcesByPriorityClass[pc] =
                        RLSub(before.ScheduledResourcesByPriorityClass[pc], rl)
                  /\ sctx.ScheduledResources = RLSub(pre.ScheduledResources, rl)
                  /\ sctx.ScheduledResourcesByPriorityClass[pc] =
                        RLSub(pre.ScheduledResourcesByPriorityClass[pc], rl)
                  /\ sctx.NumScheduledJobs = pre.NumScheduledJobs - 1
                  /\ EvictedIds(after) = EvictedIds(before)
                  /\ after.EvictedResourcesByPriorityClass =
                        before.EvictedResourcesByPriorityClass
                  /\ sctx.EvictedResources = pre.EvictedResources
                  /\ sctx.EvictedResourcesByPriorityClass =
                        pre.EvictedResourcesByPriorityClass
                  /\ sctx.NumEvictedJobs = pre.NumEvictedJobs
            /\ ~wasSuccessful =>
                  /\ EvictedIds(after) = EvictedIds(before) \cup {job.Id}
                  /\ after.EvictedResourcesByPriorityClass[pc] =
                        RLAdd(before.EvictedResourcesByPriorityClass[pc], rl)
                  /\ sctx.EvictedResources = RLAdd(pre.EvictedResources, rl)
                  /\ sctx.EvictedResourcesByPriorityClass[pc] =
                        RLAdd(pre.EvictedResourcesByPriorityClass[pc], rl)
                  /\ sctx.NumEvictedJobs = pre.NumEvictedJobs + 1
                  /\ SuccessfulIds(after) = SuccessfulIds(before)
                  /\ after.ScheduledResourcesByPriorityClass =
                        before.ScheduledResourcesByPriorityClass
                  /\ sctx.ScheduledResources = pre.ScheduledResources
                  /\ sctx.ScheduledResourcesByPriorityClass =
                        pre.ScheduledResourcesByPriorityClass
                  /\ sctx.NumScheduledJobs = pre.NumScheduledJobs

\* C28 witness: EvictJob has evicted the one job scheduled in this round
\* and reported it as scheduled.
C28_Witness ==
    /\ last.op = "EvictJob"
    /\ last.err = NoError
    /\ last.ret
    /\ pre.NumScheduledJobs = 1
    /\ sctx.NumScheduledJobs = 0

\* C28: the other case is met too: EvictJob has evicted a job that was not
\* scheduled in this round.
C28_NotScheduledCaseReached ==
    /\ last.op = "EvictJob"
    /\ last.err = NoError
    /\ ~last.ret
    /\ sctx.NumEvictedJobs = pre.NumEvictedJobs + 1

\* The last call was the Round's job apply, accepted, of an unsuccessful
\* JobDecision.
UnsuccessfulApplied ==
    /\ last.op = "AddJobSchedulingContext"
    /\ last.err = NoError
    /\ ~IsSuccessful(last.jctxs[1])

\* C29: an accepted unsuccessful JobDecision is only inserted into its
\* queue's unsuccessful set: the queue's Allocated, AllocatedByPriorityClass,
\* scheduled and evicted tables, successful and evicted sets, and all
\* aggregates of the Round are as before the call.
C29_UnsuccessfulApplyOnlyRecords ==
    UnsuccessfulApplied =>
        LET jctx == last.jctxs[1]
            queue == Deref(jctx.Job).Queue
            before == QueueBefore(queue)
            after == QueueRound(queue)
        IN  /\ after.UnsuccessfulJobSchedulingContexts =
                  MapPut(before.UnsuccessfulJobSchedulingContexts,
                         jctx.JobId, jctx)
            /\ after =
                  [before EXCEPT !.UnsuccessfulJobSchedulingContexts =
                      after.UnsuccessfulJobSchedulingContexts]
            /\ sctx =
                  [pre EXCEPT !.QueueSchedulingContexts[queue] = after]

\* C29 witness: an unsuccessful JobDecision has been recorded in a queue
\* that holds a job scheduled in this round.
C29_Witness ==
    /\ UnsuccessfulApplied
    /\ pre.NumScheduledJobs = 1
    /\ last.jctxs[1].JobId \in
          UnsuccessfulIds(QueueRound(Deref(last.jctxs[1].Job).Queue))
    /\ SuccessfulIds(QueueRound(Deref(last.jctxs[1].Job).Queue)) # {}

\* C30: an evicted job that fails to be re-scheduled stays evicted.  After
\* an unsuccessful JobDecision is applied for a job id in the queue's
\* evicted set, the id is still in the evicted set, the queue's
\* EvictedResourcesByPriorityClass, the Round's EvictedResources and
\* NumEvictedJobs and the queue's Allocated are as before the call, and the
\* call returns true.
C30_FailedEvicteeStaysEvicted ==
    (/\ UnsuccessfulApplied
     /\ last.jctxs[1].JobId \in
           EvictedIds(QueueBefore(Deref(last.jctxs[1].Job).Queue))) =>
        LET jctx == last.jctxs[1]
            queue == Deref(jctx.Job).Queue
            before == QueueBefore(queue)
            after == QueueRound(queue)
        IN  /\ jctx.JobId \in EvictedIds(after)
            /\ after.EvictedResourcesByPriorityClass =
                  before.EvictedResourcesByPriorityClass
            /\ sctx.EvictedResources = pre.EvictedResources
            /\ sctx.EvictedResourcesByPriorityClass =
                  pre.EvictedResourcesByPriorityClass
            /\ sctx.NumEvictedJobs = pre.NumEvictedJobs
            /\ after.Allocated = before.Allocated
            /\ after.AllocatedByPriorityClass = before.AllocatedByPriorityClass
            /\ last.ret

\* C30 witness: a job evicted by the Round from a queue with an initial
\* allocation has failed to be re-scheduled: it is in the evicted and the
\* unsuccessful set at once and the queue's Allocated is still short of
\* its request.
C30_Witness ==
    /\ UnsuccessfulApplied
    /\ last.ret
    /\ LET jctx == last.jctxs[1]
           after == QueueRound(Deref(jctx.Job).Queue)
       IN  /\ jctx.JobId \in EvictedIds(after) \cap UnsuccessfulIds(after)
           /\ sctx.NumEvictedJobs = 1
           /\ after.Allocated = RLSub(RL(5, 50), Deref(jctx.Job).Requests)

\* The queue whose QueueRound the last call applied member i of its
\* JobDecisions to, or evicted member i of its jobs from: the queue the call
\* was made on, or for a call on the Round the queue the job names.
QueueOfMember(i) ==
    IF last.queue # "" THEN last.queue
    ELSE IF last.jctxs # << >> THEN Deref(last.jctxs[i].Job).Queue
    ELSE last.jobs[i].Queue

IdOfMember(i) ==
    IF last.jctxs # << >> THEN last.jctxs[i].JobId ELSE last.jobs[i].Id

\* Whether member i of the last call was, before the call, in the
\* unsuccessful set of the queue it was meant for.
MemberWasUnsuccessful(i) ==
    /\ QueueOfMember(i) \in DOMAIN pre.QueueSchedulingContexts
    /\ IdOfMember(i) \in UnsuccessfulIds(QueueBefore(QueueOfMember(i)))

GangOps ==
    {"AddGangSchedulingContext", "EvictGang", "Queue.AddGangSchedulingContext"}

\* C31: unsuccessful is absorbing within a round.  Once a job id is in a
\* queue's unsuccessful set, (a) every single-job apply, successful or not,
\* and every single-job evict for the id in that queue returns an error and
\* leaves the whole Round as it was; (b) in every reachable state the
\* QueueRound rejects every JobDecision and every job with the id and is
\* left as it was, so that a gang call with such a member returns an error;
\* (c) no step takes the id out of the unsuccessful set.
C31_UnsuccessfulIsAbsorbing ==
    /\ [](/\ (last.op \in SingleJobOps /\ MemberWasUnsuccessful(1)) =>
                 (last.err # NoError /\ sctx = pre)
          /\ (/\ last.op \in GangOps
              /\ \E i \in DOMAIN last.jctxs \cup DOMAIN last.jobs :
                     MemberWasUnsuccessful(i)) =>
                 last.err # NoError
          /\ \A q \in Queues : \A id \in UnsuccessfulIds(QueueRound(q)) :
                /\ \A jctx \in {c \in Jctxs : c.JobId = id} :
                      LET r == Qctx_AddJobSchedulingContext(QueueRound(q), jctx)
                      IN  r.err # NoError /\ r.obj = QueueRound(q)
                /\ \A job \in {j \in Jobs : j.Id = id} :
                      LET r == Qctx_EvictJob(QueueRound(q), job)
                      IN  r.err # NoError /\ r.obj = QueueRound(q))
    /\ [][\A q \in Queues :
             /\ q \in DOMAIN sctx'.QueueSchedulingContexts
             /\ UnsuccessfulIds(QueueRound(q)) \subseteq
                   UnsuccessfulIds(sctx'.QueueSchedulingContexts[q])]_vars

\* C31 witness: a successful JobDecision with pod requirements has been
\* rejected for a job id that is in its queue's unsuccessful set, and the
\* id is still there.
C31_Witness ==
    /\ last.op = "AddJobSchedulingContext"
    /\ IsSuccessful(last.jctxs[1])
    /\ last.jctxs[1].PodRequirements # Nil
    /\ MemberWasUnsuccessful(1)
    /\ last.err # NoError
    /\ IdOfMember(1) \in UnsuccessfulIds(QueueRound(QueueOfMember(1)))

\* The last call was a gang apply that incremented NumScheduledGangs.
GangCounted ==
    /\ GangApplied
    /\ sctx.NumScheduledGangs = pre.NumScheduledGangs + 1

\* The jobs of the members of the gang of the last call, in order.
JobsOfGang == [i \in DOMAIN last.jctxs |-> Deref(last.jctxs[i].Job)]

\* C32 (the claim): for any gang whose apply incremented NumScheduledGangs,
\* an EvictGang of exactly the same members that follows restores
\* NumScheduledGangs to its value before the apply, including when some but
\* not all members were pre-evicted on entry to the apply.
C32_Original_GangApplyThenEvictCancels ==
    GangCounted =>
        LET r == EvictGang(sctx, JobsOfGang)
        IN  r.err = NoError /\ r.obj.NumScheduledGangs = pre.NumScheduledGangs

\* C32 amended: for any gang whose apply incremented NumScheduledGangs and
\* none of whose members was pre-evicted on entry to the apply, an EvictGang
\* of exactly the same members that follows restores NumScheduledGangs to
\* its value before the apply.  When a member was pre-evicted, the apply
\* did not record it in successful, EvictGang finds it not scheduled in this
\* round and NumScheduledGangs stays one above its value before the apply.
C32_NewGangApplyThenEvictCancels ==
    GangCounted =>
        LET r == EvictGang(sctx, JobsOfGang)
        IN  /\ r.err = NoError
            /\ r.obj.NumScheduledGangs =
                  IF \E i \in DOMAIN last.jctxs : MemberWasPreEvicted(i)
                    THEN pre.NumScheduledGangs + 1
                    ELSE pre.NumScheduledGangs
            /\ r.ret = ~(\E i \in DOMAIN last.jctxs : MemberWasPreEvicted(i))

\* C32 witness: a gang of two members neither of which was pre-evicted has
\* been applied and counted.
C32_Witness ==
    /\ GangCounted
    /\ Len(last.jctxs) = 2
    /\ \A i \in DOMAIN last.jctxs : ~MemberWasPreEvicted(i)

\* C33 (the claim): NumScheduledGangs, NumScheduledJobs and NumEvictedJobs
\* are never negative in a state reached through Round-level operations.
C33_Original_CountsNeverNegative ==
    ~direct =>
        /\ sctx.NumScheduledGangs >= 0
        /\ sctx.NumScheduledJobs >= 0
        /\ sctx.NumEvictedJobs >= 0

\* C33 amended: NumScheduledJobs and NumEvictedJobs are never negative in a
\* state reached through Round-level operations.  NumScheduledGangs can be:
\* an EvictGang of an empty list, or of jobs that were applied one by one,
\* decrements it though no gang apply incremented it, and it is never more
\* than one below its value before the call.
C33_JobCountsNeverNegative ==
    ~direct =>
        /\ sctx.NumScheduledJobs >= 0
        /\ sctx.NumEvictedJobs >= 0
        /\ sctx.NumScheduledGangs >= pre.NumScheduledGangs - 1
        /\ last.op # "EvictGang" =>
              sctx.NumScheduledGangs >= pre.NumScheduledGangs

\* C33 witness: jobs applied one by one have been evicted as a gang, by
\* Round-level operations only, and NumScheduledGangs is negative while
\* the job counters are zero.
C33_Witness ==
    /\ ~direct
    /\ last.op = "EvictGang"
    /\ last.err = NoError
    /\ last.jobs # << >>
    /\ sctx.NumScheduledGangs = -1
    /\ pre.NumScheduledJobs = Len(last.jobs)
    /\ sctx.NumScheduledJobs = 0
    /\ sctx.NumEvictedJobs = 0

\* The sum, over the queues qs, of the entries of class p of the tables t[q].
RECURSIVE SumOfClassOverQueues(_, _, _)
SumOfClassOverQueues(t, p, qs) ==
    IF qs = {} THEN ZeroResourceList
    ELSE LET q == CHOOSE x \in qs : TRUE
         IN  RLAdd(t[q][p], SumOfClassOverQueues(t, p, qs \ {q}))

\* C34: the Round's own totals and tables by priority class agree.  The
\* Round's ScheduledResources is the sum over the classes of its
\* ScheduledResourcesByPriorityClass, its EvictedResources the sum over the
\* classes of its EvictedResourcesByPriorityClass, and, after operations
\* made on the Round itself, the Round's entry of each class is the sum
\* over the queues of the queue's entry of that class.
C34_RoundTotalsAndClassTablesAgree ==
    /\ sctx.ScheduledResources =
          SumOverClasses(sctx.ScheduledResourcesByPriorityClass)
    /\ sctx.EvictedResources =
          SumOverClasses(sctx.EvictedResourcesByPriorityClass)
    /\ ~direct =>
          \A p \in PriorityClassNames :
              /\ sctx.ScheduledResourcesByPriorityClass[p] =
                    SumOfClassOverQueues(ScheduledByQueue(sctx), p, Queues)
              /\ sctx.EvictedResourcesByPriorityClass[p] =
                    SumOfClassOverQueues(EvictedByQueue(sctx), p, Queues)

\* C34 witness: only Round operations were made, a job of one class is
\* scheduled and a job of another class is evicted.
C34_Witness ==
    /\ ~direct
    /\ \E p1, p2 \in PriorityClassNames :
          /\ p1 # p2
          /\ sctx.ScheduledResourcesByPriorityClass[p1] # ZeroResourceList
          /\ sctx.EvictedResourcesByPriorityClass[p2] # ZeroResourceList

QueueOps ==
    {"Queue.AddJobSchedulingContext", "Queue.AddGangSchedulingContext",
     "Queue.EvictJob", "Queue.ClearJobSpecs"}

\* C35: a call of AddJobSchedulingContext, AddGangSchedulingContext,
\* EvictJob or ClearJobSpecs on a QueueRound, accepted or rejected, leaves
\* the Round's scheduled and evicted totals and tables, its job and gang
\* counts, its WeightSum, the keys of its cache and every other QueueRound
\* as they were.
C35_QueueCallsLeaveRoundAlone ==
    last.op \in QueueOps =>
        /\ sctx.ScheduledResources = pre.ScheduledResources
        /\ sctx.ScheduledResourcesByPriorityClass =
              pre.ScheduledResourcesByPriorityClass
        /\ sctx.EvictedResources = pre.EvictedResources
        /\ sctx.EvictedResourcesByPriorityClass =
              pre.EvictedResourcesByPriorityClass
        /\ sctx.NumScheduledJobs = pre.NumScheduledJobs
        /\ sctx.NumEvictedJobs = pre.NumEvictedJobs
        /\ sctx.NumScheduledGangs = pre.NumScheduledGangs
        /\ sctx.WeightSum = pre.WeightSum
        /\ DOMAIN sctx.UnfeasibleSchedulingKeys =
              DOMAIN pre.UnfeasibleSchedulingKeys
        /\ DOMAIN sctx.QueueSchedulingContexts =
              DOMAIN pre.QueueSchedulingContexts
        /\ \A q \in Queues \ {last.queue} : QueueRound(q) = QueueBefore(q)

\* C35 witness: a successful JobDecision has been applied to a QueueRound
\* directly, the QueueRound has recorded it, and the Round counts no
\* scheduled job.
C35_Witness ==
    /\ last.op = "Queue.AddJobSchedulingContext"
    /\ last.err = NoError
    /\ IsSuccessful(last.jctxs[1])
    /\ last.jctxs[1].JobId \in SuccessfulIds(QueueRound(last.queue))
    /\ QueueRound(last.queue).Allocated # QueueBefore(last.queue).Allocated
    /\ sctx.NumScheduledJobs = 0

\* C35: reachable too, ClearJobSpecs called on a QueueRound that holds a
\* JobDecision, which loses its job handle.
C35_QueueClearJobSpecsReached ==
    /\ last.op = "Queue.ClearJobSpecs"
    /\ QueueRound(last.queue) # QueueBefore(last.queue)

(***************************************************************************)
(* NewGangSchedulingContext, a function of its argument alone: called with  *)
(* every list of up to MaxGang JobSchedulingContexts whose jobs and pod     *)
(* requirements carry annotations.                                          *)
(***************************************************************************)
\* schedulerconfig.IsEvictedAnnotation and
\* configuration.GangNodeUniformityLabelAnnotation, the two annotation keys
\* the function looks up.
IsEvictedAnnotation == "isEvicted"
GangNodeUniformityLabelAnnotation == "gangNodeUniformityLabel"

\* m[key] of a Go map of strings: the empty string for a missing key.
Lookup(m, key) == IF key \in DOMAIN m THEN m[key] ELSE ""

\* The annotations a job may carry, and those its pod requirements may.
JobAnnotations ==
    { EmptyMap,
      [k \in {IsEvictedAnnotation} |-> "true"],
      [k \in {IsEvictedAnnotation} |-> "false"] }
PodAnnotations ==
    { EmptyMap, [k \in {GangNodeUniformityLabelAnnotation} |-> "zone"] }

\* JobSchedulingContexts with pod requirements, as NewGangSchedulingContext
\* needs them (it reads the requests of every member).
AnnotatedJctxs ==
    { [ JobId |-> j.Id,
        Job |-> Ptr(j @@ [Annotations |-> a]),
        PodRequirements |-> Ptr([Requests |-> j.Requests, Annotations |-> pa]),
        UnschedulableReason |-> "" ] :
        j \in Jobs, a \in JobAnnotations, pa \in PodAnnotations }

\* A mutant of isEvictedJob: the annotation key is looked for, not its
\* value.
isEvictedJob_AnnotationPresent(job) ==
    IsEvictedAnnotation \in DOMAIN job.Annotations

isEvictedJob(job) == Lookup(job.Annotations, IsEvictedAnnotation) = "true"

RECURSIVE TotalRequests(_)
TotalRequests(jctxs) ==
    IF jctxs = << >> THEN ZeroResourceList
    ELSE RLAdd(Deref(Head(jctxs).PodRequirements).Requests,
               TotalRequests(Tail(jctxs)))

NewGangSchedulingContext(jctxs) ==
    [ Queue |-> IF Len(jctxs) > 0 THEN Deref(jctxs[1].Job).Queue ELSE "",
      PriorityClassName |->
          IF Len(jctxs) > 0 THEN Deref(jctxs[1].Job).PriorityClassName ELSE "",
      JobSchedulingContexts |-> jctxs,
      TotalResourceRequests |-> TotalRequests(jctxs),
      AllJobsEvicted |->
          \A i \in DOMAIN jctxs : isEvictedJob(Deref(jctxs[i].Job)),
      NodeUniformityLabel |->
          IF Len(jctxs) > 0 /\ jctxs[1].PodRequirements # Nil
            THEN Lookup(Deref(jctxs[1].PodRequirements).Annotations,
                        GangNodeUniformityLabelAnnotation)
            ELSE "" ]

\* GangSchedulingContext.Cardinality.
Gctx_Cardinality(gctx) == Len(gctx.JobSchedulingContexts)

\* A caller builds a gang from a list of JobSchedulingContexts; the call and
\* what it returned are kept in last.
BuildGang ==
    \E jctxs \in SeqsUpTo(AnnotatedJctxs, MaxGang) :
        /\ last = NoCall
        /\ last' = Call("NewGangSchedulingContext", "", jctxs, << >>,
                        FALSE, NoError, << >>) @@
                   [value |-> NewGangSchedulingContext(jctxs)]
        /\ UNCHANGED <<sctx, pre, direct, returned, nOps, supplied, fate>>
        /\ UNCHANGED sflVars

\* The caller takes the gang.
TakeGang ==
    /\ last.op = "NewGangSchedulingContext"
    /\ last' = NoCall
    /\ UNCHANGED <<sctx, pre, direct, returned, nOps, supplied, fate>>
    /\ UNCHANGED sflVars

GangNext == BuildGang \/ TakeGang

GangSpec == Init /\ [][GangNext]_vars

\* The resource-wise sum of the requests of the members is of jctxs, in
\* whatever order they are added.
RECURSIVE SumOfMemberRequests(_, _)
SumOfMemberRequests(jctxs, is) ==
    IF is = {} THEN ZeroResourceList
    ELSE LET i == CHOOSE x \in is : TRUE
         IN  RLAdd(Deref(jctxs[i].PodRequirements).Requests,
                   SumOfMemberRequests(jctxs, is \ {i}))

\* C36: a GangDecision built from a non-empty ordered list of JobDecisions
\* has the queue and the priority-class name of the first member,
\* Cardinality equal to the number of members, TotalResourceRequests equal
\* to the resource-wise sum of the members' requests, AllJobsEvicted true
\* exactly when the job of every member carries the evicted-job annotation
\* with the value "true", and the members in the order given.
C36_GangBuiltFromItsMembers ==
    (last.op = "NewGangSchedulingContext" /\ last.jctxs # << >>) =>
        LET gctx == last.value
            jctxs == last.jctxs
        IN  /\ gctx.Queue = Deref(jctxs[1].Job).Queue
            /\ gctx.PriorityClassName = Deref(jctxs[1].Job).PriorityClassName
            /\ Gctx_Cardinality(gctx) = Len(jctxs)
            /\ gctx.TotalResourceRequests =
                  SumOfMemberRequests(jctxs, DOMAIN jctxs)
            /\ gctx.AllJobsEvicted <=>
                  \A i \in DOMAIN jctxs :
                      /\ IsEvictedAnnotation \in
                            DOMAIN Deref(jctxs[i].Job).Annotations
                      /\ Deref(jctxs[i].Job).Annotations[IsEvictedAnnotation] =
                            "true"
            /\ \A i \in DOMAIN jctxs : gctx.JobSchedulingContexts[i] = jctxs[i]
            /\ Len(gctx.JobSchedulingContexts) = Len(jctxs)

\* C36 witness: a gang has been built from two members of different queues
\* and priority classes, one annotated as evicted with the value "true" and
\* the other with the value "false".
C36_Witness ==
    /\ last.op = "NewGangSchedulingContext"
    /\ Len(last.jctxs) = 2
    /\ Deref(last.jctxs[1].Job).Queue # Deref(last.jctxs[2].Job).Queue
    /\ Deref(last.jctxs[1].Job).PriorityClassName #
          Deref(last.jctxs[2].Job).PriorityClassName
    /\ Lookup(Deref(last.jctxs[1].Job).Annotations, IsEvictedAnnotation) = "true"
    /\ Lookup(Deref(last.jctxs[2].Job).Annotations, IsEvictedAnnotation) = "false"
    /\ ~last.value.AllJobsEvicted

\* The errors that are permanent for the events given: a job id that does
\* not parse now will not parse at the next attempt.
PermanentErrors == {"invalid job id"}

\* C37: a handler reports its events as not processed, which leaves the
\* event index where it was, only for a transient error; when the error is
\* permanent for the events given, such as a malformed job id in a CancelJob
\* or JobErrors event, the index advances past the subsequence.
C37_PermanentErrorAdvancesIndex ==
    (sub.handler # "none" /\ sub.err \in PermanentErrors) =>
        (sub.ok /\ sub.j = sub.i + Len(sub.es))

\* C37 failing case: ProcessSequence has tried a CancelJob event with a
\* malformed job id until its timeout, the index never left 0, and it
\* returned false.
C37_Witness ==
    /\ run = "ack"
    /\ result.returned /\ ~result.ack
    /\ index = 0
    /\ idle = Timeout
    /\ sub.handler = "CancelJob"
    /\ sub.err = "invalid job id"
    /\ ~sub.ok
    /\ sub.j = sub.i

\* C37: the same happens for a JobErrors event with a terminal error and a
\* malformed job id, while ReprioritizeJobs moves on.
C37_JobErrorsCaseReached ==
    /\ run = "process"
    /\ sub.handler = "JobErrors"
    /\ sub.err = "invalid job id"
    /\ sub.j = sub.i
    /\ idle > 0
C37_ReprioritiseAdvancesReached ==
    /\ run = "process"
    /\ sub.handler = "ReprioritiseJob"
    /\ sub.err = "invalid job id"
    /\ sub.j > sub.i

\* Whether ProcessSequence's loop ends depends on what a handler answers,
\* not on which handler it is.  One event for every kind of answer: a
\* handler that can process or fail either way (SubmitJob, CancelJob,
\* JobRunRunning), one that never reports its events processed (CancelJob
\* and JobErrors with a malformed job id), one that reports them processed
\* with an error (ReprioritiseJob with a malformed job id), and an event
\* without a handler.
TerminationEvents ==
    { Event("SubmitJob", TRUE, FALSE), Event("CancelJob", TRUE, FALSE),
      Event("CancelJob", FALSE, FALSE), Event("ReprioritiseJob", FALSE, FALSE),
      Event("JobRunRunning", TRUE, FALSE), Event("JobErrors", FALSE, TRUE),
      Event("JobSucceeded", TRUE, FALSE) }

\* A message with a sequence of such events: Run enters ProcessSequence.
ReceiveTerminationSequence ==
    /\ run = "receive"
    /\ \E k \in 0..MaxEvents : \E events \in [1..k -> TerminationEvents] :
          msg' = Message("sequence", events)
    /\ index' = 0
    /\ idle' = 0
    /\ run' = "process"
    /\ UNCHANGED <<result, acked, sub, done>>
    /\ UNCHANGED roundVars

SubmitFromLogFairNext ==
    \/ ReceiveTerminationSequence
    \/ ProcessSequenceStep
    \/ ProcessSequenceReturn
    \/ Ack
    \/ Continue

\* Run under the scheduling the code gives it.  ProcessSequence's loop is
\* sequential code: while its condition holds the next iteration is made
\* (an attempt without progress sleeps a second, so the time since the last
\* progress grows), and once the condition fails the function returns.
SubmitFromLogFairSpec ==
    /\ Init
    /\ [][SubmitFromLogFairNext]_vars
    /\ WF_vars(ProcessSequenceStep)
    /\ WF_vars(ProcessSequenceReturn)

\* C38: ProcessSequence terminates for every event sequence, even if a
\* handler reports no progress at every attempt: its loop is left once
\* every event has been processed or the timeout has passed since the index
\* last advanced, and it then returns true iff the index has advanced past
\* at least one event or the sequence is empty.
C38_ProcessSequenceTerminates ==
    /\ (run = "process") ~> (run = "ack" /\ result.returned)
    /\ [](result.returned =>
              /\ index = Len(msg.events) \/ idle >= Timeout
              /\ result.ack <=> (index > 0 \/ Len(msg.events) = 0))

\* C38 witness: every attempt at the first event of a sequence met a network
\* error, the timeout passed, and ProcessSequence has returned false.
C38_Witness ==
    /\ run = "ack"
    /\ result.returned /\ ~result.ack
    /\ Len(msg.events) = MaxEvents
    /\ index = 0
    /\ idle = Timeout
    /\ sub.err = "network error"

\* C38: reachable too, a return after the timeout with part of the sequence
\* processed, which returns true.
C38_PartlyProcessedReached ==
    /\ run = "ack"
    /\ result.returned /\ result.ack
    /\ 0 < index /\ index < Len(msg.events)
    /\ idle = Timeout

\* ---------------------------------------------------------------------
\* Events without a handler

\* The event at index k of the sequence has a type without a handler.
UnhandledAt(events, k) ==
    k >= 0 /\ k < Len(events) /\ events[k + 1].type \in UnhandledTypes

\* C39: for an event whose type has no handler ProcessSubSequence calls no
\* handler, returns no error, and returns the index of the first later
\* event of another type (the number of events if there is none); so an
\* iteration of ProcessSequence's loop that meets such an event moves past
\* the whole run of events of that type, counts as progress, and leaves
\* every event of the run dealt with.
C39_UnhandledRunSkippedInOneStep ==
    /\ [](sub # NoSubSequence /\ UnhandledAt(sub.events, sub.i) =>
            /\ sub.handler = "none"
            /\ sub.err = NoError
            /\ sub.j = FirstOfOtherType(sub.events, sub.i)
            /\ sub.j > sub.i
            /\ \A k \in sub.i..(sub.j - 1) :
                  sub.events[k + 1].type = sub.events[sub.i + 1].type)
    /\ [][run = "process" /\ index < Len(msg.events) /\ idle < Timeout
          /\ UnhandledAt(msg.events, index)
          /\ (index' # index \/ idle' # idle \/ sub' # sub)
          => /\ index' = FirstOfOtherType(msg.events, index)
             /\ index' > index
             /\ idle' = 0
             /\ index..(index' - 1) \subseteq done']_vars

\* C39 witness: ProcessSequence met two unhandled events of one type that
\* are followed by an event of another type, and skipped both in one step.
C39_Witness ==
    /\ run = "process"
    /\ sub # NoSubSequence
    /\ UnhandledAt(sub.events, sub.i)
    /\ sub.events = msg.events
    /\ sub.j = sub.i + 2
    /\ sub.j < Len(sub.events)
    /\ index = sub.j
    /\ idle = 0

====
